---------------------------- MODULE Spec2Model ----------------------------
(***************************************************************************)
(* A model of GitAutoSync (src/main.js): the project registry, discovery,  *)
(* the change detector, the debouncer, the sync queue and its scheduler,   *)
(* the per-project sync workflow and the repository-name sanitizer.        *)
(*                                                                         *)
(* Every async function of the class is a coroutine: a record with a pc    *)
(* naming the await it is suspended at.  One action is the synchronous     *)
(* code that runs when that await resumes, up to the next await; the       *)
(* awaited result (a filesystem read, an HTTP answer, a git result) is     *)
(* taken at the moment of resumption.                                      *)
(***************************************************************************)
EXTENDS Integers, Sequences, FiniteSets, TLC

(***************************************************************************)
(* Bounds of the model.                                                    *)
(***************************************************************************)
MaxMtime == 2        \* folder modification times range over 0..MaxMtime
MaxTime == 10        \* the clock of the timed specifications stops here
MaxTail == 3         \* sanitizer inputs: free characters after the padding

(***************************************************************************)
(* Program constants.                                                      *)
(***************************************************************************)
DebounceDelay == 3       \* setTimeout(..., 3000) in debouncedQueueAdd
DetectorPeriod == 5      \* setInterval(..., 5000) in startFolderMonitoring
ScanPeriod == 30         \* setInterval(..., 30000) in startFolderMonitoring
ProcessPeriod == 10      \* setInterval(..., 10000) in startSyncProcessor
MaxRepoNameLen == 100    \* .substring(0, 100) in sanitizeRepoName

NoTimer == -1            \* no entry in a timer map

(***************************************************************************)
(* sanitizeRepoName.  A name is a sequence of one-character strings.       *)
(***************************************************************************)
LowerOf(c) ==
    CASE c = "A" -> "a"
      [] c = "B" -> "b"
      [] OTHER -> c

IsSpace(c) == c \in {" ", "\t"}
IsSeparator(c) == c \in {"-", "_", "."}
IsAllowed(c) == c \in {"a", "b", "0", "1", "-", "_", "."}

ToLowerCase(s) == [i \in DOMAIN s |-> LowerOf(s[i])]

\* .replace(/\s+/g, '-'): every maximal run of whitespace becomes one hyphen
ReplaceSpaceRuns(s) ==
    LET marked == [i \in DOMAIN s |->
                      IF ~IsSpace(s[i]) THEN s[i]
                      ELSE IF i > 1 /\ IsSpace(s[i - 1]) THEN "" ELSE "-"]
    IN SelectSeq(marked, LAMBDA c : c # "")

\* .replace(/[^a-z0-9\-_.]/g, '')
StripDisallowed(s) == SelectSeq(s, IsAllowed)

\* .replace(/^[-_.]+|[-_.]+$/g, ''): the leading run, then the trailing run
TrimLeading(s) ==
    LET kept == {i \in DOMAIN s : ~IsSeparator(s[i])} IN
    IF kept = {} THEN << >>
    ELSE SubSeq(s, CHOOSE i \in kept : \A j \in kept : i <= j, Len(s))

TrimTrailing(s) ==
    LET kept == {i \in DOMAIN s : ~IsSeparator(s[i])} IN
    IF kept = {} THEN << >>
    ELSE SubSeq(s, 1, CHOOSE i \in kept : \A j \in kept : i >= j)

TrimSeparators(s) == TrimTrailing(TrimLeading(s))

\* .substring(0, 100)
Truncate(s) == IF Len(s) > MaxRepoNameLen THEN SubSeq(s, 1, MaxRepoNameLen) ELSE s

\* a variant that lets whitespace through to the character filter
sanitizeRepoNameNoHyphen(name) ==
    Truncate(TrimSeparators(StripDisallowed(ToLowerCase(name))))

sanitizeRepoName(name) ==
    Truncate(TrimSeparators(StripDisallowed(ReplaceSpaceRuns(ToLowerCase(name)))))

\* sanitizeRepoName of the renderer (openProjectGitHub builds the link with it),
\* step by step as the renderer writes it
rendererSanitizeRepoName(name) ==
    LET lower == [i \in 1..Len(name) |-> LowerOf(name[i])]
        \* /\s+/g: a run is replaced where it begins
        starts == SelectSeq([i \in 1..Len(lower) |-> i],
                      LAMBDA i : ~IsSpace(lower[i]) \/ i = 1 \/ ~IsSpace(lower[i - 1]))
        hyphened == [k \in 1..Len(starts) |->
                        IF IsSpace(lower[starts[k]]) THEN "-" ELSE lower[starts[k]]]
        stripped == SelectSeq(hyphened, LAMBDA c : IsAllowed(c))
        n == Len(stripped)
        \* /^[-_.]+|[-_.]+$/g: the longest run at the start, then the longest
        \* run at the end of what is left
        lead == CHOOSE k \in 0..n :
                    /\ \A i \in 1..k : IsSeparator(stripped[i])
                    /\ k < n => ~IsSeparator(stripped[k + 1])
        trail == CHOOSE k \in 0..(n - lead) :
                    /\ \A i \in (n - k + 1)..n : IsSeparator(stripped[i])
                    /\ k < n - lead => ~IsSeparator(stripped[n - k])
        trimmed == [i \in 1..(n - lead - trail) |-> stripped[lead + i]]
        kept == IF Len(trimmed) < MaxRepoNameLen THEN Len(trimmed) ELSE MaxRepoNameLen
    IN [i \in 1..kept |-> trimmed[i]]


(***************************************************************************)
(* The projects of the model.  One watch root holds the folders of Paths;  *)
(* path.basename(projectPath) is NameOf(p).                                *)
(***************************************************************************)
Paths == {"p1", "p2"}

VARIABLE folderName  \* environment: the name of each entry of the watch root

\* the names the folders have unless a specification chooses others
ProjectNames == [p \in Paths |-> IF p = "p1" THEN <<"A", "b">> ELSE <<"b", " ", "a">>]

NameOf(p) == folderName[p]

RepoNameOf(p) == sanitizeRepoName(NameOf(p))

RepoNames == {RepoNameOf(p) : p \in Paths}

\* readdir lists the entries of the watch root in a fixed order
DirOrder == <<"p1", "p2">>

(***************************************************************************)
(* Coroutine pools: how many instances of each async function may be       *)
(* suspended at the same time.                                             *)
(***************************************************************************)
MaxBatches == 2      \* processQueue
MaxStarts == 1       \* startAutoSync (with its scanProjects)
MaxDetectors == 1    \* checkFolderModifications
MaxScanners == 1     \* scanForNewProjects
MaxLive == 2         \* live interval timers of one kind

BatchIds == 1..MaxBatches
StartIds == 1..MaxStarts
DetectorIds == 1..MaxDetectors
ScannerIds == 1..MaxScanners

VARIABLES
    config,          \* this.config is set
    isRunning,       \* this.isRunning
    isSyncing,       \* this.status.isSyncing, the busy flag
    phase,           \* this.status.phase
    isOnline,        \* this.networkStatus.isOnline
    projectStates,   \* Map path -> {mtime}, entries in insertion order
    projects,        \* this.status.projects, records in insertion order
    syncQueue,       \* Set of paths, in insertion order
    debounceTimers,  \* Map path -> timeout handle: the time it is due, or NoTimer
    timeouts,        \* the setTimeout callbacks of debouncedQueueAdd not yet run or cleared
    stats,           \* this.stats: totalProjects, completedProjects, failedProjects
    handles,         \* syncInterval, projectScanInterval, processInterval are set
    live,            \* number of interval timers of each kind not cleared
    nextDue,         \* when the interval timer of each kind fires next
    startTimers,     \* pending setTimeout(() => this.startAutoSync())
    starts,          \* startAutoSync coroutines
    detectors,       \* checkFolderModifications coroutines
    scanners,        \* scanForNewProjects coroutines
    batches,         \* processQueue coroutines, each with its workflow
    disk,            \* environment: the project folders and their git state
    remote,          \* environment: the repositories that exist on GitHub
    now,             \* environment: the clock
    timed,           \* whether timers follow the clock or fire at any moment
    lastCall,        \* history: time of the last debouncedQueueAdd of a path
    bursts,          \* history: calls of debouncedQueueAdd in the burst of a path (up to 2)
    enqueues,        \* history: timers fired since the burst of a path began (up to 2)
    lastTouch,       \* history: time of the last modification of a folder
    lastRun,         \* history: outcome of the last finished workflow per path
    sanIn,           \* sanitizer check: the input name
    sanOut           \* sanitizer check: the result, or "none"

vars == <<config, isRunning, isSyncing, phase, isOnline, projectStates,
          projects, syncQueue, debounceTimers, timeouts, stats, handles, live, nextDue,
          startTimers, starts, detectors, scanners, batches, disk, remote,
          now, timed, folderName, lastCall, bursts, enqueues, lastTouch, lastRun,
          sanIn, sanOut>>

progVars == <<config, isRunning, isSyncing, phase, isOnline, projectStates,
              projects, syncQueue, debounceTimers, timeouts, stats, handles, live,
              nextDue, startTimers, starts, detectors, scanners, batches>>
envVars == <<disk, remote, now, timed, folderName>>
histVars == <<lastCall, bursts, enqueues, lastTouch, lastRun>>
sanVars == <<sanIn, sanOut>>

(***************************************************************************)
(* JavaScript Map and Set, kept in insertion order.                        *)
(***************************************************************************)
Keys(m) == {m[i].path : i \in DOMAIN m}
Has(m, p) == p \in Keys(m)
Get(m, p) == m[CHOOSE i \in DOMAIN m : m[i].path = p]
Put(m, r) ==
    IF Has(m, r.path)
    THEN [i \in DOMAIN m |-> IF m[i].path = r.path THEN r ELSE m[i]]
    ELSE Append(m, r)
Del(m, p) == SelectSeq(m, LAMBDA r : r.path # p)

Range(s) == {s[i] : i \in DOMAIN s}
SetAdd(s, p) == IF p \in Range(s) THEN s ELSE Append(s, p)

RECURSIVE SetAddAll(_, _)
SetAddAll(s, ps) == IF ps = << >> THEN s ELSE SetAddAll(SetAdd(s, Head(ps)), Tail(ps))

KeySeq(m) == [i \in DOMAIN m |-> m[i].path]

Min(a, b) == IF a < b THEN a ELSE b

(***************************************************************************)
(* The environment: folders on disk, their git state, GitHub.              *)
(*   git = "none"    no .git directory                                     *)
(*         "init"    git init done, no commit yet                          *)
(*         "commit"  a commit exists, the branch is not yet named main     *)
(*         "main"    a commit exists on branch main                        *)
(*   dirty           git status would list files (untracked or changed)    *)
(*   dir             the entry is a directory; a plain file is an entry of *)
(*                   the watch root as well                                *)
(***************************************************************************)
GitStages == {"none", "init", "commit", "main"}

NoFolder == [exists |-> FALSE, dir |-> FALSE, git |-> "none", origin |-> FALSE,
             mtime |-> 0, dirty |-> FALSE]
PlainFolder(t) == [exists |-> TRUE, dir |-> TRUE, git |-> "none", origin |-> FALSE,
                   mtime |-> t, dirty |-> TRUE]
ClonedFolder(t) == [exists |-> TRUE, dir |-> TRUE, git |-> "main", origin |-> TRUE,
                    mtime |-> t, dirty |-> FALSE]
FileEntry(t) == [exists |-> TRUE, dir |-> FALSE, git |-> "none", origin |-> FALSE,
                 mtime |-> t, dirty |-> FALSE]

\* fs.pathExists(projectPath)
pathExists(p) == disk[p].exists
\* fs.stat(projectPath) answers and stat.isDirectory()
isDirectory(p) == disk[p].exists /\ disk[p].dir
\* fs.pathExists(path.join(projectPath, '.git')) and git.checkIsRepo()
hasGitDir(p) == disk[p].git # "none"
\* fs.readdir(watchPath), joined with the watch root
readdir == SelectSeq(DirOrder, LAMBDA p : disk[p].exists)

\* A file is created, removed or renamed in the folder: its mtime grows and
\* the working tree differs from the last commit.
TouchFolder(p) ==
    /\ disk[p].exists /\ disk[p].dir
    /\ disk[p].mtime < MaxMtime
    /\ disk' = [disk EXCEPT ![p].mtime = @ + 1, ![p].dirty = TRUE]
    /\ lastTouch' = [lastTouch EXCEPT ![p] = now]
    /\ lastRun' = [lastRun EXCEPT ![p] = "none"]
    /\ UNCHANGED <<progVars, remote, now, timed, folderName, lastCall, bursts, enqueues, sanVars>>

\* The content of a file of the folder is edited: the working tree differs
\* from the last commit, the modification time of the folder stays.
EditFile(p) ==
    /\ disk[p].exists /\ disk[p].dir
    /\ disk' = [disk EXCEPT ![p].dirty = TRUE]
    /\ lastRun' = [lastRun EXCEPT ![p] = "none"]
    /\ UNCHANGED <<progVars, remote, now, timed, folderName, lastCall, bursts, enqueues,
                   lastTouch, sanVars>>

DeleteFolder(p) ==
    /\ disk[p].exists
    /\ disk' = [disk EXCEPT ![p] = [NoFolder EXCEPT !.mtime = disk[p].mtime]]
    /\ lastRun' = [lastRun EXCEPT ![p] = "none"]
    /\ UNCHANGED <<progVars, remote, now, timed, folderName, lastCall, bursts, enqueues,
                   lastTouch, sanVars>>

\* A folder appears in the watch root: a plain one, or a clone with its .git
CreateFolder(p, cloned) ==
    /\ ~disk[p].exists
    /\ disk[p].mtime < MaxMtime
    /\ disk' = [disk EXCEPT ![p] = IF cloned THEN ClonedFolder(disk[p].mtime + 1)
                                              ELSE PlainFolder(disk[p].mtime + 1)]
    /\ lastTouch' = [lastTouch EXCEPT ![p] = now]
    /\ lastRun' = [lastRun EXCEPT ![p] = "none"]
    /\ UNCHANGED <<progVars, remote, now, timed, folderName, lastCall, bursts, enqueues, sanVars>>

(***************************************************************************)
(* startNetworkMonitoring: the probe answers or fails; isOnline follows.   *)
(***************************************************************************)
NetworkProbe(ok) ==
    /\ isOnline' = ok
    /\ UNCHANGED <<config, isRunning, isSyncing, phase, projectStates, projects,
                   syncQueue, debounceTimers, timeouts, stats, handles, live, nextDue,
                   startTimers, starts, detectors, scanners, batches,
                   envVars, histVars, sanVars>>

(***************************************************************************)
(* updateStatus(phase, ...) keeps every field but phase, message, progress *)
(* and currentPath; the model keeps the phase.                             *)
(***************************************************************************)
Phases == {"idle", "initializing", "scanning", "ready", "monitoring", "syncing"}

Statuses == {"ready", "needs-repo", "changed", "queued", "syncing", "synced", "error"}

\* a record that is 'ready' whatever the folder holds
NewProjectReady(p) ==
    [path |-> p, hasGitRepo |-> hasGitDir(p), status |-> "ready"]

\* the record scanProjects and scanForNewProjects build for a folder
NewProject(p) ==
    [path |-> p,
     hasGitRepo |-> hasGitDir(p),
     status |-> IF hasGitDir(p) THEN "ready" ELSE "needs-repo"]

NewState(p) == [path |-> p, mtime |-> disk[p].mtime]

(***************************************************************************)
(* Coroutine records.                                                      *)
(***************************************************************************)
IdleStart == [pc |-> "idle", items |-> << >>, idx |-> 0, count |-> 0]
IdleScanner == [pc |-> "idle", items |-> << >>, idx |-> 0, found |-> 0]
IdleDetector == [pc |-> "idle", cur |-> "none", curMtime |-> 0, visited |-> {}]
\* proj: what const project = this.status.projects.get(projectPath) holds:
\*   "none" (undefined), "live" (the record of the registry), "stale"
\* trace, nominal, fresh, prior, result, report are history: the calls the
\* workflow made and the answers of GitHub, whether the folder, the network and
\* every collaborator answered without a failure, whether the folder had no
\* .git when the run began, what the previous run of the project left, what
\* the run returned and logged
IdleBatch == [pc |-> "idle", paths |-> << >>, i |-> 0, proj |-> "none",
              hasChanges |-> FALSE, trace |-> << >>, nominal |-> TRUE,
              fresh |-> FALSE, prior |-> "none", result |-> "none",
              report |-> "none"]

Free(pool, idle) == {k \in DOMAIN pool : pool[k] = idle}
\* a new coroutine takes the lowest free slot
Slot(pool, idle) == CHOOSE k \in Free(pool, idle) : \A j \in Free(pool, idle) : k <= j

\* A record of path p is removed from status.projects or replaced by a new
\* object: a batch that holds the old object keeps writing to it.
Orphan(bs, p) ==
    [b \in DOMAIN bs |->
        IF bs[b].pc # "idle" /\ bs[b].proj = "live" /\ bs[b].paths[bs[b].i] = p
        THEN [bs[b] EXCEPT !.proj = "stale"]
        ELSE bs[b]]

RECURSIVE OrphanAll(_, _)
OrphanAll(bs, ps) ==
    IF ps = {} THEN bs
    ELSE LET p == CHOOSE q \in ps : TRUE IN OrphanAll(Orphan(bs, p), ps \ {p})

\* A key is appended to projectStates: every iterator over the map that is
\* under way will reach it.
Unvisit(ds, p) == [d \in DOMAIN ds |-> [ds[d] EXCEPT !.visited = @ \ {p}]]

\* this.projectStates.set(path, {mtime}) and what it means for iterators
SetState(p, t) == Put(projectStates, [path |-> p, mtime |-> t])
SetStateIters(ds, p) == IF Has(projectStates, p) THEN ds ELSE Unvisit(ds, p)

(***************************************************************************)
(* startAutoSync, with scanProjects and, at its end, startFolderMonitoring *)
(* and startSyncProcessor.                                                 *)
(***************************************************************************)
Kinds == {"sync", "scan", "process"}

PeriodOf(k) ==
    CASE k = "sync" -> DetectorPeriod
      [] k = "scan" -> ScanPeriod
      [] k = "process" -> ProcessPeriod

ActiveStarts == Cardinality({s \in StartIds : starts[s].pc # "idle"})

\* if (!this.config || this.isRunning) return;
CanStart ==
    /\ config
    /\ ~isRunning
    /\ Free(starts, IdleStart) # {}
    /\ \A k \in Kinds : live[k] + ActiveStarts < MaxLive

\* isRunning = true; 'initializing'; scanProjects: 'scanning', then the first
\* await on the watch root
BeginStart ==
    /\ isRunning' = TRUE
    /\ phase' = "scanning"
    /\ starts' = [starts EXCEPT ![Slot(starts, IdleStart)] =
                      [IdleStart EXCEPT !.pc = "list"]]

\* the 'toggle-sync' handler and the tray item, with start = true
ToggleStart ==
    /\ CanStart
    /\ BeginStart
    /\ UNCHANGED <<config, isSyncing, isOnline, projectStates, projects,
                   syncQueue, debounceTimers, timeouts, stats, handles, live, nextDue,
                   startTimers, detectors, scanners, batches,
                   envVars, histVars, sanVars>>

\* setTimeout(() => this.startAutoSync(), ...) of init and restartAutoSync
StartTimerFire ==
    /\ startTimers > 0
    /\ startTimers' = startTimers - 1
    /\ IF CanStart
       THEN BeginStart
       ELSE UNCHANGED <<isRunning, phase, starts>>
    /\ UNCHANGED <<config, isSyncing, isOnline, projectStates, projects,
                   syncQueue, debounceTimers, timeouts, stats, handles, live, nextDue,
                   detectors, scanners, batches, envVars, histVars, sanVars>>

\* scanProjects returns projectCount; startAutoSync goes on
FinishStart(s, n) ==
    /\ stats' = [stats EXCEPT !.totalProjects = n]
    /\ starts' = [starts EXCEPT ![s] = IdleStart]
    /\ IF n > 0
       THEN /\ phase' = "monitoring"
            /\ handles' = [k \in Kinds |-> TRUE]
            /\ live' = [k \in Kinds |-> live[k] + 1]
            /\ nextDue' = [k \in Kinds |-> IF timed THEN now + PeriodOf(k) ELSE nextDue[k]]
       ELSE /\ phase' = "idle"
            /\ UNCHANGED <<handles, live, nextDue>>

\* const items = await fs.readdir(watchPath), then the first item's stat
StartList(s) ==
    /\ starts[s].pc = "list"
    /\ IF readdir = << >>
       THEN FinishStart(s, 0)
       ELSE /\ starts' = [starts EXCEPT ![s] =
                              [@ EXCEPT !.pc = "item", !.items = readdir, !.idx = 1]]
            /\ phase' = "scanning"
            /\ UNCHANGED <<stats, handles, live, nextDue>>
    /\ UNCHANGED <<config, isRunning, isSyncing, isOnline, projectStates,
                   projects, syncQueue, debounceTimers, timeouts, startTimers, detectors,
                   scanners, batches, envVars, histVars, sanVars>>

\* stat, .git check and stat of one item, and its registration; an entry
\* that is no directory, or whose stat fails, is passed over
StartItem(s) ==
    LET p == starts[s].items[starts[s].idx] IN
    /\ starts[s].pc = "item"
    /\ IF isDirectory(p)
       THEN /\ projectStates' = SetState(p, disk[p].mtime)
            /\ projects' = Put(projects, NewProject(p))
            /\ detectors' = SetStateIters(detectors, p)
            /\ batches' = Orphan(batches, p)
            /\ syncQueue' = IF hasGitDir(p) THEN syncQueue ELSE SetAdd(syncQueue, p)
            /\ starts' = [starts EXCEPT ![s] =
                              [@ EXCEPT !.pc = "delay", !.count = @ + 1]]
       ELSE /\ starts' = [starts EXCEPT ![s].pc = "delay"]
            /\ UNCHANGED <<projectStates, projects, detectors, batches, syncQueue>>
    /\ UNCHANGED <<config, isRunning, isSyncing, phase, isOnline,
                   debounceTimers, timeouts, stats, handles, live, nextDue, startTimers,
                   scanners, envVars, histVars, sanVars>>

\* after the 50 ms delay: the next item, or the end of the scan
StartDelay(s) ==
    /\ starts[s].pc = "delay"
    /\ IF starts[s].idx < Len(starts[s].items)
       THEN /\ starts' = [starts EXCEPT ![s] = [@ EXCEPT !.pc = "item", !.idx = @ + 1]]
            /\ phase' = "scanning"
            /\ UNCHANGED <<stats, handles, live, nextDue>>
       ELSE FinishStart(s, starts[s].count)
    /\ UNCHANGED <<config, isRunning, isSyncing, isOnline, projectStates,
                   projects, syncQueue, debounceTimers, timeouts, startTimers, detectors,
                   scanners, batches, envVars, histVars, sanVars>>

(***************************************************************************)
(* scanForNewProjects, on the projectScanInterval timer.                   *)
(***************************************************************************)
IntervalDue(k) == live[k] > 0 /\ (timed => nextDue[k] = now)
Rearm(k) == nextDue' = IF timed THEN [nextDue EXCEPT ![k] = now + PeriodOf(k)] ELSE nextDue

\* a scan that takes every item, known or not
NextUnknownAny(items, i, known) ==
    IF i < Len(items) THEN i + 1 ELSE 0

\* the index of the next item after i that status.projects does not hold
NextUnknown(items, i, known) ==
    LET c == {j \in DOMAIN items : j > i /\ items[j] \notin known} IN
    IF c = {} THEN 0 ELSE CHOOSE j \in c : \A k \in c : j <= k

FinishScan(c, found, size) ==
    /\ scanners' = [scanners EXCEPT ![c] = IdleScanner]
    /\ stats' = IF found > 0 THEN [stats EXCEPT !.totalProjects = size] ELSE stats

ScanTick ==
    /\ IntervalDue("scan")
    /\ Rearm("scan")
    /\ IF ~config \/ isSyncing
       THEN UNCHANGED scanners
       ELSE /\ Free(scanners, IdleScanner) # {}
            /\ scanners' = [scanners EXCEPT ![Slot(scanners, IdleScanner)] =
                                [IdleScanner EXCEPT !.pc = "list"]]
    /\ UNCHANGED <<config, isRunning, isSyncing, phase, isOnline, projectStates,
                   projects, syncQueue, debounceTimers, timeouts, stats, handles, live,
                   startTimers, starts, detectors, batches,
                   envVars, histVars, sanVars>>

ScanList(c) ==
    LET j == NextUnknown(readdir, 0, Keys(projects)) IN
    /\ scanners[c].pc = "list"
    /\ IF j = 0
       THEN FinishScan(c, 0, Len(projects))
       ELSE /\ scanners' = [scanners EXCEPT ![c] =
                                [@ EXCEPT !.pc = "item", !.items = readdir, !.idx = j]]
            /\ UNCHANGED stats
    /\ UNCHANGED <<config, isRunning, isSyncing, phase, isOnline, projectStates,
                   projects, syncQueue, debounceTimers, timeouts, handles, live, nextDue,
                   startTimers, starts, detectors, batches,
                   envVars, histVars, sanVars>>

ScanItem(c) ==
    LET p == scanners[c].items[scanners[c].idx]
        ok == isDirectory(p)
        found == scanners[c].found + (IF ok THEN 1 ELSE 0)
        known == IF ok THEN Keys(projects) \cup {p} ELSE Keys(projects)
        j == NextUnknown(scanners[c].items, scanners[c].idx, known)
    IN
    /\ scanners[c].pc = "item"
    /\ IF ok
       THEN /\ projectStates' = SetState(p, disk[p].mtime)
            /\ projects' = Put(projects, NewProject(p))
            /\ detectors' = SetStateIters(detectors, p)
            /\ batches' = Orphan(batches, p)
            /\ syncQueue' = IF hasGitDir(p) THEN syncQueue ELSE SetAdd(syncQueue, p)
       ELSE UNCHANGED <<projectStates, projects, detectors, batches, syncQueue>>
    /\ IF j = 0
       THEN FinishScan(c, found, Cardinality(known))
       ELSE /\ scanners' = [scanners EXCEPT ![c] = [@ EXCEPT !.idx = j, !.found = found]]
            /\ UNCHANGED stats
    /\ UNCHANGED <<config, isRunning, isSyncing, phase, isOnline,
                   debounceTimers, timeouts, handles, live, nextDue, startTimers, starts,
                   envVars, histVars, sanVars>>

(***************************************************************************)
(* debouncedQueueAdd.  A timeout is the callback setTimeout holds; the map *)
(* debounceTimers holds its handle.                                        *)
(***************************************************************************)
Timeout(p, due) == [path |-> p, due |-> due]

PendingFor(p) == {t \in timeouts : t.path = p}

\* debouncedQueueAdd without the clearTimeout of its first lines
debouncedQueueAddNoClear(p) ==
    /\ timeouts' = timeouts \cup {Timeout(p, now + DebounceDelay)}
    /\ debounceTimers' = [debounceTimers EXCEPT ![p] = now + DebounceDelay]
    /\ lastCall' = [lastCall EXCEPT ![p] = now]
    /\ bursts' = [bursts EXCEPT ![p] = IF PendingFor(p) = {} THEN 1 ELSE Min(@ + 1, 2)]
    /\ enqueues' = [enqueues EXCEPT ![p] = IF PendingFor(p) = {} THEN 0 ELSE @]

debouncedQueueAdd(p) ==
    /\ timeouts' = (IF debounceTimers[p] # NoTimer
                    THEN timeouts \ {Timeout(p, debounceTimers[p])}
                    ELSE timeouts) \cup {Timeout(p, now + DebounceDelay)}
    /\ debounceTimers' = [debounceTimers EXCEPT ![p] = now + DebounceDelay]
    /\ lastCall' = [lastCall EXCEPT ![p] = now]
    /\ bursts' = [bursts EXCEPT ![p] = IF PendingFor(p) = {} THEN 1 ELSE Min(@ + 1, 2)]
    /\ enqueues' = [enqueues EXCEPT ![p] = IF PendingFor(p) = {} THEN 0 ELSE @]

\* the callback of the timeout
DebounceFire(t) ==
    /\ t \in timeouts
    /\ timed => t.due = now
    /\ timeouts' = timeouts \ {t}
    /\ syncQueue' = SetAdd(syncQueue, t.path)
    /\ debounceTimers' = [debounceTimers EXCEPT ![t.path] = NoTimer]
    /\ projects' = IF Has(projects, t.path)
                   THEN Put(projects, [Get(projects, t.path) EXCEPT !.status = "queued"])
                   ELSE projects
    /\ enqueues' = [enqueues EXCEPT ![t.path] = Min(@ + 1, 2)]
    /\ UNCHANGED <<config, isRunning, isSyncing, phase, isOnline, projectStates,
                   stats, handles, live, nextDue, startTimers, starts, detectors,
                   scanners, batches, envVars, lastCall, bursts, lastTouch,
                   lastRun, sanVars>>

(***************************************************************************)
(* checkFolderModifications, on the syncInterval timer.                    *)
(***************************************************************************)
\* the index of the first entry of the map the iterator has not passed
NextEntry(m, visited) ==
    LET c == {j \in DOMAIN m : m[j].path \notin visited} IN
    IF c = {} THEN 0 ELSE CHOOSE j \in c : \A k \in c : j <= k

\* the for-of loop takes its next entry and awaits fs.pathExists, or the
\* pass ends: updateStatus('monitoring', ...)
DetectorNext(ds, d, m, visited) ==
    LET j == NextEntry(m, visited) IN
    IF j = 0
    THEN /\ detectors' = [ds EXCEPT ![d] = IdleDetector]
         /\ phase' = "monitoring"
    ELSE /\ detectors' = [ds EXCEPT ![d] =
                              [pc |-> "exists", cur |-> m[j].path,
                               curMtime |-> m[j].mtime,
                               visited |-> visited \cup {m[j].path}]]
         /\ UNCHANGED phase

DetectorTick ==
    /\ IntervalDue("sync")
    /\ Rearm("sync")
    /\ IF isSyncing
       THEN UNCHANGED <<detectors, phase>>
       ELSE /\ Free(detectors, IdleDetector) # {}
            /\ DetectorNext(detectors, Slot(detectors, IdleDetector), projectStates, {})
    /\ UNCHANGED <<config, isRunning, isSyncing, isOnline, projectStates,
                   projects, syncQueue, debounceTimers, timeouts, stats, handles,
                   live, startTimers, starts, scanners, batches,
                   envVars, histVars, sanVars>>

\* the existence check without this.status.projects.delete(projectPath)
DetectorExistsKeepRecord(d) ==
    LET p == detectors[d].cur IN
    /\ detectors[d].pc = "exists"
    /\ IF pathExists(p)
       THEN /\ phase' = "monitoring"
            /\ detectors' = [detectors EXCEPT ![d].pc = "stat"]
            /\ UNCHANGED <<projectStates, projects, batches>>
       ELSE /\ projectStates' = Del(projectStates, p)
            /\ UNCHANGED <<projects, batches>>
            /\ DetectorNext(detectors, d, Del(projectStates, p), detectors[d].visited)
    /\ UNCHANGED <<config, isRunning, isSyncing, isOnline, syncQueue,
                   debounceTimers, timeouts, stats, handles, live, nextDue,
                   startTimers, starts, scanners, envVars, histVars, sanVars>>

\* if (!(await fs.pathExists(projectPath))) { delete; continue; }
DetectorExists(d) ==
    LET p == detectors[d].cur IN
    /\ detectors[d].pc = "exists"
    /\ IF pathExists(p)
       THEN /\ phase' = "monitoring"
            /\ detectors' = [detectors EXCEPT ![d].pc = "stat"]
            /\ UNCHANGED <<projectStates, projects, batches>>
       ELSE /\ projectStates' = Del(projectStates, p)
            /\ projects' = Del(projects, p)
            /\ batches' = Orphan(batches, p)
            /\ DetectorNext(detectors, d, Del(projectStates, p), detectors[d].visited)
    /\ UNCHANGED <<config, isRunning, isSyncing, isOnline, syncQueue,
                   debounceTimers, timeouts, stats, handles, live, nextDue,
                   startTimers, starts, scanners, envVars, histVars, sanVars>>

\* a classification by the modification time alone
ClassifyByMtime(hasGit, currentMtime, storedMtime) ==
    IF currentMtime > storedMtime THEN "changed" ELSE "ready"

\* a classification that looks at the modification time first
ClassifyMtimeFirst(hasGit, currentMtime, storedMtime) ==
    IF currentMtime > storedMtime THEN "changed"
    ELSE IF ~hasGit THEN "needs-repo"
    ELSE "ready"

\* a classification that takes every folder with a repository as changed
ClassifyAlwaysChanged(hasGit, currentMtime, storedMtime) ==
    IF ~hasGit THEN "needs-repo" ELSE "changed"

\* the status the pass gives a record
Classify(hasGit, currentMtime, storedMtime) ==
    IF ~hasGit THEN "needs-repo"
    ELSE IF currentMtime > storedMtime THEN "changed"
    ELSE "ready"

\* fs.stat, the .git check, the update of the record and of the stored time
DetectorStat(d) ==
    LET p == detectors[d].cur
        currentMtime == disk[p].mtime
        st == Classify(hasGitDir(p), currentMtime, detectors[d].curMtime)
    IN
    /\ detectors[d].pc = "stat"
    /\ IF ~pathExists(p)
       THEN \* fs.stat throws: the catch logs it and the loop goes on
            /\ DetectorNext(detectors, d, projectStates, detectors[d].visited)
            /\ UNCHANGED <<projectStates, projects, debounceTimers, timeouts,
                           lastCall, bursts, enqueues>>
       ELSE /\ IF Has(projects, p)
               THEN /\ projects' = Put(projects, [Get(projects, p) EXCEPT
                                                     !.hasGitRepo = hasGitDir(p),
                                                     !.status = st])
                    /\ IF st = "ready"
                       THEN UNCHANGED <<debounceTimers, timeouts, lastCall, bursts, enqueues>>
                       ELSE debouncedQueueAdd(p)
               ELSE UNCHANGED <<projects, debounceTimers, timeouts, lastCall,
                                bursts, enqueues>>
            /\ IF currentMtime > detectors[d].curMtime
               THEN /\ projectStates' = SetState(p, currentMtime)
                    /\ detectors' = [SetStateIters(detectors, p) EXCEPT ![d].pc = "delay"]
               ELSE /\ UNCHANGED projectStates
                    /\ detectors' = [detectors EXCEPT ![d].pc = "delay"]
            /\ UNCHANGED phase
    /\ UNCHANGED <<config, isRunning, isSyncing, isOnline, syncQueue, stats,
                   handles, live, nextDue, startTimers, starts, scanners,
                   batches, envVars, lastTouch, lastRun, sanVars>>

\* after the 50 ms delay
DetectorDelay(d) ==
    /\ detectors[d].pc = "delay"
    /\ DetectorNext(detectors, d, projectStates, detectors[d].visited)
    /\ UNCHANGED <<config, isRunning, isSyncing, isOnline, projectStates,
                   projects, syncQueue, debounceTimers, timeouts, stats, handles,
                   live, nextDue, startTimers, starts, scanners, batches,
                   envVars, histVars, sanVars>>

(***************************************************************************)
(* processQueue: the batch, and syncProjectWithProgress inside it.         *)
(***************************************************************************)
\* the loop body up to the first await of syncProjectWithProgress
EnterProject(bs, b, paths, i, projs) ==
    LET p == paths[i] IN
    /\ projects' = IF Has(projs, p)
                   THEN Put(projs, [Get(projs, p) EXCEPT !.status = "syncing"])
                   ELSE projs
    /\ batches' = [bs EXCEPT ![b] =
                      [IdleBatch EXCEPT !.pc = "precheck", !.paths = paths, !.i = i,
                                        !.proj = IF Has(projs, p) THEN "live" ELSE "none",
                                        !.fresh = pathExists(p) /\ ~hasGitDir(p),
                                        !.prior = lastRun[p]]]
    /\ lastRun' = [lastRun EXCEPT ![p] = "run"]
    /\ phase' = "syncing"

\* if (this.status.isSyncing || this.syncQueue.size === 0) return;
CanProcess(queue) == ~isSyncing /\ queue # << >>

\* a batch that leaves the queue as it is
BeginBatchKeepQueue(queue) ==
    /\ Free(batches, IdleBatch) # {}
    /\ isSyncing' = TRUE
    /\ syncQueue' = queue
    /\ stats' = [totalProjects |-> Len(queue), completedProjects |-> 0,
                 failedProjects |-> 0]
    /\ EnterProject(batches, Slot(batches, IdleBatch), queue, 1, projects)

\* processQueue from its guard to the first await, on the queue given
BeginBatch(queue) ==
    /\ Free(batches, IdleBatch) # {}
    /\ isSyncing' = TRUE
    /\ syncQueue' = << >>
    /\ stats' = [totalProjects |-> Len(queue), completedProjects |-> 0,
                 failedProjects |-> 0]
    /\ EnterProject(batches, Slot(batches, IdleBatch), queue, 1, projects)

\* a processor whose tick never runs the queue
ProcessTickIdle ==
    /\ IntervalDue("process")
    /\ Rearm("process")
    /\ UNCHANGED <<isSyncing, syncQueue, stats, projects, batches, lastRun, phase>>
    /\ UNCHANGED <<config, isRunning, isOnline, projectStates, debounceTimers,
                   timeouts, handles, live, startTimers, starts, detectors,
                   scanners, envVars, lastCall, bursts, enqueues, lastTouch,
                   sanVars>>

\* the processInterval timer of startSyncProcessor
ProcessTick ==
    /\ IntervalDue("process")
    /\ Rearm("process")
    /\ IF CanProcess(syncQueue)
       THEN BeginBatch(syncQueue)
       ELSE UNCHANGED <<isSyncing, syncQueue, stats, projects, batches, lastRun, phase>>
    /\ UNCHANGED <<config, isRunning, isOnline, projectStates, debounceTimers,
                   timeouts, handles, live, startTimers, starts, detectors,
                   scanners, envVars, lastCall, bursts, enqueues, lastTouch,
                   sanVars>>

\* a manual sync that runs the batch on the queue as it finds it
manualSyncQueueOnly ==
    /\ IF ~config \/ isSyncing \/ ~CanProcess(syncQueue)
       THEN UNCHANGED <<isSyncing, syncQueue, stats, projects, batches, lastRun, phase>>
       ELSE BeginBatch(syncQueue)
    /\ UNCHANGED <<config, isRunning, isOnline, projectStates, debounceTimers,
                   timeouts, handles, live, nextDue, startTimers, starts,
                   detectors, scanners, envVars, lastCall, bursts, enqueues,
                   lastTouch, sanVars>>

\* if (!this.config) return; if (this.status.isSyncing) return; every key of
\* status.projects is added to the queue; await this.processQueue()
manualSync ==
    /\ IF ~config \/ isSyncing
       THEN UNCHANGED <<isSyncing, syncQueue, stats, projects, batches, lastRun, phase>>
       ELSE LET queue == SetAddAll(syncQueue, KeySeq(projects)) IN
            IF CanProcess(queue)
            THEN BeginBatch(queue)
            ELSE /\ syncQueue' = queue
                 /\ UNCHANGED <<isSyncing, stats, projects, batches, lastRun, phase>>
    /\ UNCHANGED <<config, isRunning, isOnline, projectStates, debounceTimers,
                   timeouts, handles, live, nextDue, startTimers, starts,
                   detectors, scanners, envVars, lastCall, bursts, enqueues,
                   lastTouch, sanVars>>

CurrentPath(b) == batches[b].paths[batches[b].i]

\* a processQueue that stores the record of the project it has finished
ReturnStoresRecord(b, ok, report, touchPhase, fault, calls) ==
    LET p == CurrentPath(b) IN
    /\ stats' = IF ok THEN [stats EXCEPT !.completedProjects = @ + 1]
                      ELSE [stats EXCEPT !.failedProjects = @ + 1]
    /\ projects' = IF batches[b].proj # "none"
                   THEN Put(projects, [NewProject(p) EXCEPT
                                          !.status = IF ok THEN "synced" ELSE "error"])
                   ELSE projects
    /\ phase' = IF ok \/ touchPhase THEN "syncing" ELSE phase
    /\ lastRun' = [lastRun EXCEPT ![p] =
                      IF @ = "run" THEN (IF ok THEN "ok" ELSE "failed") ELSE "none"]
    /\ batches' = [batches EXCEPT ![b] =
                      [@ EXCEPT !.pc = "delay",
                                !.result = IF ok THEN "ok" ELSE "failed",
                                !.report = report,
                                !.nominal = @ /\ ~fault,
                                !.trace = @ \o calls]]

\* syncProjectWithProgress returns; processQueue counts it, marks the record
\* and awaits the 500 ms delay.  fault: a collaborator failed in this step.
Return(b, ok, report, touchPhase, fault, calls) ==
    LET p == CurrentPath(b) IN
    /\ stats' = IF ok THEN [stats EXCEPT !.completedProjects = @ + 1]
                      ELSE [stats EXCEPT !.failedProjects = @ + 1]
    /\ projects' = IF batches[b].proj = "live" /\ Has(projects, p)
                   THEN Put(projects, [Get(projects, p) EXCEPT
                                          !.status = IF ok THEN "synced" ELSE "error"])
                   ELSE projects
    /\ phase' = IF ok \/ touchPhase THEN "syncing" ELSE phase
    /\ lastRun' = [lastRun EXCEPT ![p] =
                      IF @ = "run" THEN (IF ok THEN "ok" ELSE "failed") ELSE "none"]
    /\ batches' = [batches EXCEPT ![b] =
                      [@ EXCEPT !.pc = "delay",
                                !.result = IF ok THEN "ok" ELSE "failed",
                                !.report = report,
                                !.nominal = @ /\ ~fault,
                                !.trace = @ \o calls]]

\* the workflow goes on to its next await, having made these calls
Goto(b, pc, calls, fault) ==
    /\ batches' = [batches EXCEPT ![b] =
                      [@ EXCEPT !.pc = pc, !.trace = @ \o calls,
                                !.nominal = @ /\ ~fault]]
    /\ phase' = "syncing"
    /\ UNCHANGED <<stats, projects, lastRun>>

\* the folder check without the network check
BatchPrecheckNoNetwork(b) ==
    /\ batches[b].pc = "precheck"
    /\ IF ~pathExists(CurrentPath(b))
       THEN Return(b, FALSE, "no-folder", FALSE, TRUE, << >>)
       ELSE Goto(b, "checkRepo", <<"checkGitHubRepo">>, FALSE)
    /\ UNCHANGED <<config, isRunning, isSyncing, isOnline, projectStates,
                   syncQueue, debounceTimers, timeouts, handles, live, nextDue,
                   startTimers, starts, detectors, scanners, envVars, lastCall,
                   bursts, enqueues, lastTouch, sanVars>>

\* the folder check and the network check
BatchPrecheck(b) ==
    /\ batches[b].pc = "precheck"
    /\ IF ~pathExists(CurrentPath(b))
       THEN Return(b, FALSE, "no-folder", FALSE, TRUE, << >>)
       ELSE IF ~isOnline
            THEN Return(b, FALSE, "offline", TRUE, TRUE, << >>)
            ELSE Goto(b, "checkRepo", <<"checkGitHubRepo">>, FALSE)
    /\ UNCHANGED <<config, isRunning, isSyncing, isOnline, projectStates,
                   syncQueue, debounceTimers, timeouts, handles, live, nextDue,
                   startTimers, starts, detectors, scanners, envVars, lastCall,
                   bursts, enqueues, lastTouch, sanVars>>

(***************************************************************************)
(* checkGitHubRepo and createGitHubRepo, as functions of the HTTP status   *)
(* of the answer (0: no answer, a timeout).                                *)
(***************************************************************************)
checkGitHubRepo(status) ==
    IF status = 200 THEN [throws |-> FALSE, value |-> TRUE, error |-> "none"]
    ELSE IF status = 404 THEN [throws |-> FALSE, value |-> FALSE, error |-> "none"]
    ELSE [throws |-> TRUE, value |-> FALSE, error |-> "api"]

\* createGitHubRepo without the branch for status 422
createGitHubRepoStrict(status) ==
    IF status = 201 THEN [throws |-> FALSE, value |-> TRUE, error |-> "none"]
    ELSE IF status = 401 THEN [throws |-> TRUE, value |-> FALSE, error |-> "token"]
    ELSE IF status = 403 THEN [throws |-> TRUE, value |-> FALSE, error |-> "rate-limit"]
    ELSE [throws |-> TRUE, value |-> FALSE, error |-> "create"]

\* createGitHubRepo with one error for every refusal
createGitHubRepoOneCause(status) ==
    IF status = 201 THEN [throws |-> FALSE, value |-> TRUE, error |-> "none"]
    ELSE IF status = 422 THEN [throws |-> FALSE, value |-> TRUE, error |-> "none"]
    ELSE [throws |-> TRUE, value |-> FALSE, error |-> "create"]

createGitHubRepo(status) ==
    IF status = 201 THEN [throws |-> FALSE, value |-> TRUE, error |-> "none"]
    ELSE IF status = 422 THEN [throws |-> FALSE, value |-> TRUE, error |-> "none"]
    ELSE IF status = 401 THEN [throws |-> TRUE, value |-> FALSE, error |-> "token"]
    ELSE IF status = 403 THEN [throws |-> TRUE, value |-> FALSE, error |-> "rate-limit"]
    ELSE [throws |-> TRUE, value |-> FALSE, error |-> "create"]

\* the answer to the creation call, as the trace of a run records it
CreateAnswer(status) ==
    IF status = 201 THEN "created"
    ELSE IF status = 422 THEN "conflict"
    ELSE "refused"

\* what GitHub may answer
FaultStatuses == {0, 401, 403, 500}
CheckAnswers(p) == {IF RepoNameOf(p) \in remote THEN 200 ELSE 404} \cup FaultStatuses
CreateAnswers(p) == {IF RepoNameOf(p) \in remote THEN 422 ELSE 201} \cup FaultStatuses

BatchCheckRepo(b, status) ==
    LET p == CurrentPath(b)
        r == checkGitHubRepo(status)
    IN
    /\ batches[b].pc = "checkRepo"
    /\ status \in CheckAnswers(p)
    /\ IF r.throws
       THEN Return(b, FALSE, r.error, TRUE, TRUE, << >>)
       ELSE IF ~r.value
            THEN Goto(b, "createRepo", <<"createGitHubRepo">>, FALSE)
            ELSE Goto(b, "checkIsRepo", <<"checkIsRepo">>, FALSE)
    /\ UNCHANGED <<config, isRunning, isSyncing, isOnline, projectStates,
                   syncQueue, debounceTimers, timeouts, handles, live, nextDue,
                   startTimers, starts, detectors, scanners, envVars, lastCall,
                   bursts, enqueues, lastTouch, sanVars>>

BatchCreateRepo(b, status) ==
    LET p == CurrentPath(b)
        r == createGitHubRepo(status)
    IN
    /\ batches[b].pc = "createRepo"
    /\ status \in CreateAnswers(p)
    /\ remote' = IF status = 201 THEN remote \cup {RepoNameOf(p)} ELSE remote
    /\ IF r.throws
       THEN Return(b, FALSE, r.error, TRUE, TRUE, <<CreateAnswer(status)>>)
       ELSE Goto(b, "createDelay", <<CreateAnswer(status)>>, FALSE)
    /\ UNCHANGED <<config, isRunning, isSyncing, isOnline, projectStates,
                   syncQueue, debounceTimers, timeouts, handles, live, nextDue,
                   startTimers, starts, detectors, scanners, disk, now, timed, folderName,
                   lastCall, bursts, enqueues, lastTouch, sanVars>>

\* a workflow that goes from the creation of the remote to the remote URL
BatchCreateDelaySkipBootstrap(b) ==
    /\ batches[b].pc = "createDelay"
    /\ Goto(b, "remote", <<"setRemote">>, FALSE)
    /\ UNCHANGED <<config, isRunning, isSyncing, isOnline, projectStates,
                   syncQueue, debounceTimers, timeouts, handles, live, nextDue,
                   startTimers, starts, detectors, scanners, envVars, lastCall,
                   bursts, enqueues, lastTouch, sanVars>>

\* after the 1000 ms delay: git.checkIsRepo()
BatchCreateDelay(b) ==
    /\ batches[b].pc = "createDelay"
    /\ Goto(b, "checkIsRepo", <<"checkIsRepo">>, FALSE)
    /\ UNCHANGED <<config, isRunning, isSyncing, isOnline, projectStates,
                   syncQueue, debounceTimers, timeouts, handles, live, nextDue,
                   startTimers, starts, detectors, scanners, envVars, lastCall,
                   bursts, enqueues, lastTouch, sanVars>>

BatchCheckIsRepo(b) ==
    /\ batches[b].pc = "checkIsRepo"
    /\ IF hasGitDir(CurrentPath(b))
       THEN Goto(b, "remote", <<"setRemote">>, FALSE)
       ELSE Goto(b, "init", <<"initGitRepo">>, FALSE)
    /\ UNCHANGED <<config, isRunning, isSyncing, isOnline, projectStates,
                   syncQueue, debounceTimers, timeouts, handles, live, nextDue,
                   startTimers, starts, detectors, scanners, envVars, lastCall,
                   bursts, enqueues, lastTouch, sanVars>>

(***************************************************************************)
(* The git steps.  A git call fails when the environment makes it fail     *)
(* (a lock, a hook, a deleted folder, the network); the outcome of a step  *)
(* is an input of its action.                                              *)
(***************************************************************************)
\* initGitRepo: the step that threw, or "ok"
InitOutcomes == {"ok", "init", "commit", "branch", "remote"}

\* the folder after initGitRepo stopped at step k
AfterInit(f, k) ==
    CASE k = "init" -> f
      [] k = "commit" -> [f EXCEPT !.git = "init", !.dirty = TRUE]
      [] k = "branch" -> [f EXCEPT !.git = "commit", !.dirty = FALSE]
      [] k = "remote" -> [f EXCEPT !.git = "main", !.dirty = FALSE]
      [] k = "ok" -> [f EXCEPT !.git = "main", !.dirty = FALSE, !.origin = TRUE]

BatchInit(b, k) ==
    LET p == CurrentPath(b) IN
    /\ batches[b].pc = "init"
    /\ k \in InitOutcomes
    /\ ~pathExists(p) => k = "init"
    /\ disk' = [disk EXCEPT ![p] = AfterInit(@, k)]
    /\ IF k = "ok"
       THEN /\ batches' = [batches EXCEPT ![b] =
                              [@ EXCEPT !.pc = "remote",
                                        !.trace = @ \o <<"commit", "setRemote">>]]
            /\ phase' = "syncing"
            /\ projects' = IF batches[b].proj = "live" /\ Has(projects, p)
                           THEN Put(projects, [Get(projects, p) EXCEPT !.hasGitRepo = TRUE])
                           ELSE projects
            /\ UNCHANGED <<stats, lastRun>>
       ELSE Return(b, FALSE, "init", TRUE, TRUE,
                   IF k \in {"branch", "remote"} THEN <<"commit">> ELSE << >>)
    /\ UNCHANGED <<config, isRunning, isSyncing, isOnline, projectStates,
                   syncQueue, debounceTimers, timeouts, handles, live, nextDue,
                   startTimers, starts, detectors, scanners, remote, now, timed, folderName,
                   lastCall, bursts, enqueues, lastTouch, sanVars>>

\* git.removeRemote('origin').catch(() => {}); git.addRemote('origin', url):
\* a failure is a warning only
RemoteOutcomes == {"ok", "add-failed", "all-failed"}

\* a remote URL configuration whose failure ends the run
BatchRemoteFatal(b, r) ==
    LET p == CurrentPath(b) IN
    /\ batches[b].pc = "remote"
    /\ r \in RemoteOutcomes
    /\ ~(pathExists(p) /\ hasGitDir(p)) => r = "all-failed"
    /\ disk' = [disk EXCEPT ![p].origin =
                    IF r = "ok" THEN TRUE ELSE IF r = "add-failed" THEN FALSE ELSE @]
    /\ IF r = "ok"
       THEN Goto(b, "commit", <<"status">>, FALSE)
       ELSE Return(b, FALSE, "remote", TRUE, TRUE, << >>)
    /\ UNCHANGED <<config, isRunning, isSyncing, isOnline, projectStates,
                   syncQueue, debounceTimers, timeouts, handles, live, nextDue,
                   startTimers, starts, detectors, scanners, remote, now, timed, folderName,
                   lastCall, bursts, enqueues, lastTouch, sanVars>>

BatchRemote(b, r) ==
    LET p == CurrentPath(b) IN
    /\ batches[b].pc = "remote"
    /\ r \in RemoteOutcomes
    /\ ~(pathExists(p) /\ hasGitDir(p)) => r = "all-failed"
    /\ disk' = [disk EXCEPT ![p].origin =
                    IF r = "ok" THEN TRUE ELSE IF r = "add-failed" THEN FALSE ELSE @]
    /\ Goto(b, "commit", <<"status">>, r # "ok")
    /\ UNCHANGED <<config, isRunning, isSyncing, isOnline, projectStates,
                   syncQueue, debounceTimers, timeouts, handles, live, nextDue,
                   startTimers, starts, detectors, scanners, remote, now, timed, folderName,
                   lastCall, bursts, enqueues, lastTouch, sanVars>>

\* the commit step without the test of status.files.length
BatchCommitAlways(b, ok, first) ==
    LET p == CurrentPath(b) IN
    /\ batches[b].pc = "commit"
    /\ first \in {"commit", "main"}
    /\ ~(pathExists(p) /\ hasGitDir(p)) => ~ok
    /\ IF ok
       THEN /\ disk' = [disk EXCEPT ![p].dirty = FALSE,
                                     ![p].git = IF @ = "init" THEN first ELSE @]
            /\ batches' = [batches EXCEPT ![b] =
                              [@ EXCEPT !.pc = "push", !.hasChanges = TRUE,
                                        !.trace = @ \o <<"commit", "push">>]]
            /\ phase' = "syncing"
            /\ UNCHANGED <<stats, projects, lastRun>>
       ELSE /\ UNCHANGED disk
            /\ Return(b, FALSE, "commit", TRUE, TRUE, << >>)
    /\ UNCHANGED <<config, isRunning, isSyncing, isOnline, projectStates,
                   syncQueue, debounceTimers, timeouts, handles, live, nextDue,
                   startTimers, starts, detectors, scanners, remote, now, timed, folderName,
                   lastCall, bursts, enqueues, lastTouch, sanVars>>

\* git.status(); if files are listed, git.add('.') and git.commit(...).
\* first: the stage a first commit leaves, by the user's init.defaultBranch
BatchCommit(b, ok, first) ==
    LET p == CurrentPath(b)
        hasChanges == disk[p].dirty
    IN
    /\ batches[b].pc = "commit"
    /\ first \in {"commit", "main"}
    /\ ~(pathExists(p) /\ hasGitDir(p)) => ~ok
    /\ IF ok
       THEN /\ disk' = IF hasChanges
                       THEN [disk EXCEPT ![p].dirty = FALSE,
                                         ![p].git = IF @ = "init" THEN first ELSE @]
                       ELSE disk
            /\ batches' = [batches EXCEPT ![b] =
                              [@ EXCEPT !.pc = "push", !.hasChanges = hasChanges,
                                        !.trace = @ \o (IF hasChanges THEN <<"commit">> ELSE << >>)
                                                    \o <<"push">>]]
            /\ phase' = "syncing"
            /\ UNCHANGED <<stats, projects, lastRun>>
       ELSE /\ UNCHANGED disk
            /\ Return(b, FALSE, "commit", TRUE, TRUE, << >>)
    /\ UNCHANGED <<config, isRunning, isSyncing, isOnline, projectStates,
                   syncQueue, debounceTimers, timeouts, handles, live, nextDue,
                   startTimers, starts, detectors, scanners, remote, now, timed, folderName,
                   lastCall, bursts, enqueues, lastTouch, sanVars>>

\* git push origin main can succeed
CanPush(p) ==
    /\ pathExists(p)
    /\ disk[p].git = "main"
    /\ disk[p].origin
    /\ RepoNameOf(p) \in remote

\* git.push('origin', 'main'): done, or an error that names the upstream,
\* or another error
PushOutcomes == {"ok", "upstream", "failed"}

\* a push that is retried after any failure
BatchPushRetryAny(b, r) ==
    LET p == CurrentPath(b) IN
    /\ batches[b].pc = "push"
    /\ r \in PushOutcomes
    /\ r = "ok" => CanPush(p)
    /\ IF r = "ok"
       THEN Return(b, TRUE, IF batches[b].hasChanges THEN "synced" ELSE "no-changes",
                   TRUE, FALSE, << >>)
       ELSE Goto(b, "pushUpstream", <<"pushUpstream">>, TRUE)
    /\ UNCHANGED <<config, isRunning, isSyncing, isOnline, projectStates,
                   syncQueue, debounceTimers, timeouts, handles, live, nextDue,
                   startTimers, starts, detectors, scanners, envVars, lastCall,
                   bursts, enqueues, lastTouch, sanVars>>

BatchPush(b, r) ==
    LET p == CurrentPath(b) IN
    /\ batches[b].pc = "push"
    /\ r \in PushOutcomes
    /\ r = "ok" => CanPush(p)
    /\ CASE r = "ok" ->
              Return(b, TRUE, IF batches[b].hasChanges THEN "synced" ELSE "no-changes",
                     TRUE, FALSE, << >>)
         [] r = "upstream" -> Goto(b, "pushUpstream", <<"pushUpstream">>, TRUE)
         [] r = "failed" -> Return(b, FALSE, "push", TRUE, TRUE, << >>)
    /\ UNCHANGED <<config, isRunning, isSyncing, isOnline, projectStates,
                   syncQueue, debounceTimers, timeouts, handles, live, nextDue,
                   startTimers, starts, detectors, scanners, envVars, lastCall,
                   bursts, enqueues, lastTouch, sanVars>>

\* git.push(['-u', 'origin', 'main'])
BatchPushUpstream(b, ok) ==
    LET p == CurrentPath(b) IN
    /\ batches[b].pc = "pushUpstream"
    /\ ok => CanPush(p)
    /\ IF ok
       THEN Return(b, TRUE, "first-push", TRUE, FALSE, << >>)
       ELSE Return(b, FALSE, "push", TRUE, TRUE, << >>)
    /\ UNCHANGED <<config, isRunning, isSyncing, isOnline, projectStates,
                   syncQueue, debounceTimers, timeouts, handles, live, nextDue,
                   startTimers, starts, detectors, scanners, envVars, lastCall,
                   bursts, enqueues, lastTouch, sanVars>>

\* after the 500 ms delay: the next path of the snapshot, or the end of the
\* batch, which leaves a 2000 ms timeout behind
\* a batch that ends at the first project that failed
BatchDelayAbortOnFailure(b) ==
    /\ batches[b].pc = "delay"
    /\ IF batches[b].i < Len(batches[b].paths) /\ batches[b].result = "ok"
       THEN /\ EnterProject(batches, b, batches[b].paths, batches[b].i + 1, projects)
            /\ UNCHANGED isSyncing
       ELSE /\ phase' = "monitoring"
            /\ isSyncing' = FALSE
            /\ batches' = [batches EXCEPT ![b] = [IdleBatch EXCEPT !.pc = "settle"]]
            /\ UNCHANGED <<projects, lastRun>>
    /\ UNCHANGED <<config, isRunning, isOnline, projectStates, syncQueue,
                   debounceTimers, timeouts, stats, handles, live, nextDue,
                   startTimers, starts, detectors, scanners, envVars, lastCall,
                   bursts, enqueues, lastTouch, sanVars>>

\* the 500 ms delay at the end of the loop body: the next project, or the end
BatchDelay(b) ==
    /\ batches[b].pc = "delay"
    /\ IF batches[b].i < Len(batches[b].paths)
       THEN /\ EnterProject(batches, b, batches[b].paths, batches[b].i + 1, projects)
            /\ UNCHANGED isSyncing
       ELSE /\ phase' = "monitoring"
            /\ isSyncing' = FALSE
            /\ batches' = [batches EXCEPT ![b] = [IdleBatch EXCEPT !.pc = "settle"]]
            /\ UNCHANGED <<projects, lastRun>>
    /\ UNCHANGED <<config, isRunning, isOnline, projectStates, syncQueue,
                   debounceTimers, timeouts, stats, handles, live, nextDue,
                   startTimers, starts, detectors, scanners, envVars, lastCall,
                   bursts, enqueues, lastTouch, sanVars>>

\* setTimeout(() => updateStatus('monitoring', ...), 2000)
BatchSettle(b) ==
    /\ batches[b].pc = "settle"
    /\ phase' = "monitoring"
    /\ batches' = [batches EXCEPT ![b] = IdleBatch]
    /\ UNCHANGED <<config, isRunning, isSyncing, isOnline, projectStates,
                   projects, syncQueue, debounceTimers, timeouts, stats, handles,
                   live, nextDue, startTimers, starts, detectors, scanners,
                   envVars, histVars, sanVars>>

(***************************************************************************)
(* stopAutoSync, restartAutoSync after a saved configuration.              *)
(***************************************************************************)
MaxStartTimers == 1   \* pending setTimeout(() => this.startAutoSync())

stopAutoSync ==
    /\ isRunning' = FALSE
    /\ handles' = [k \in Kinds |-> FALSE]
    /\ live' = [k \in Kinds |-> IF handles[k] THEN live[k] - 1 ELSE live[k]]
    /\ timeouts' = timeouts \ {Timeout(p, debounceTimers[p]) : p \in Paths}
    /\ debounceTimers' = [p \in Paths |-> NoTimer]
    /\ syncQueue' = << >>
    /\ projectStates' = << >>
    /\ projects' = << >>
    /\ isSyncing' = FALSE
    /\ phase' = "idle"
    /\ batches' = OrphanAll(batches, Paths)
    /\ detectors' = [d \in DetectorIds |-> [detectors[d] EXCEPT !.visited = {}]]

\* a stop that sets the network flag as the constructor does
ToggleStopResetsNetwork ==
    /\ stopAutoSync
    /\ isOnline' = TRUE
    /\ UNCHANGED <<config, stats, nextDue, startTimers, starts,
                   scanners, envVars, histVars, sanVars>>

\* the 'toggle-sync' handler with start = false, the tray item, before-quit
ToggleStop ==
    /\ stopAutoSync
    /\ UNCHANGED <<config, isOnline, stats, nextDue, startTimers, starts,
                   scanners, envVars, histVars, sanVars>>

\* the 'save-config' handler: saveConfig, then restartAutoSync
SaveConfig ==
    /\ startTimers < MaxStartTimers
    /\ config' = TRUE
    /\ stopAutoSync
    /\ startTimers' = startTimers + 1
    /\ UNCHANGED <<isOnline, stats, nextDue, starts, scanners, envVars,
                   histVars, sanVars>>

(***************************************************************************)
(* The clock of the timed specifications.  A time unit passes when nothing *)
(* is due: the steps of a scan or of a detector pass take milliseconds.    *)
(***************************************************************************)
Quiet ==
    /\ \A t \in timeouts : t.due > now
    /\ \A k \in Kinds : live[k] > 0 => nextDue[k] > now
    /\ \A d \in DetectorIds : detectors[d].pc = "idle"
    /\ \A c \in ScannerIds : scanners[c].pc = "idle"
    /\ \A s \in StartIds : starts[s].pc = "idle"
    /\ startTimers = 0

Tick ==
    /\ timed
    /\ now < MaxTime
    /\ Quiet
    /\ now' = now + 1
    /\ UNCHANGED <<progVars, disk, remote, timed, folderName, histVars, sanVars>>

(***************************************************************************)
(* GitHub, changed by someone else: a repository of that name appears.     *)
(***************************************************************************)
RemoteAppears(n) ==
    /\ n \in RepoNames \ remote
    /\ remote' = remote \cup {n}
    /\ UNCHANGED <<progVars, disk, now, timed, folderName, histVars, sanVars>>

(***************************************************************************)
(* The state after construction and init().                                *)
(***************************************************************************)
InitProgram ==
    /\ isRunning = FALSE
    /\ isSyncing = FALSE
    /\ phase = "idle"
    /\ isOnline = TRUE
    /\ projectStates = << >>
    /\ projects = << >>
    /\ syncQueue = << >>
    /\ debounceTimers = [p \in Paths |-> NoTimer]
    /\ timeouts = {}
    /\ stats = [totalProjects |-> 0, completedProjects |-> 0, failedProjects |-> 0]
    /\ handles = [k \in Kinds |-> FALSE]
    /\ live = [k \in Kinds |-> 0]
    /\ nextDue = [k \in Kinds |-> 0]
    /\ starts = [s \in StartIds |-> IdleStart]
    /\ detectors = [d \in DetectorIds |-> IdleDetector]
    /\ scanners = [c \in ScannerIds |-> IdleScanner]
    /\ batches = [b \in BatchIds |-> IdleBatch]

InitHistory ==
    /\ lastCall = [p \in Paths |-> 0]
    /\ bursts = [p \in Paths |-> 0]
    /\ enqueues = [p \in Paths |-> 0]
    /\ lastTouch = [p \in Paths |-> 0]
    /\ lastRun = [p \in Paths |-> "none"]

InitSanitizerIdle ==
    /\ sanIn = << >>
    /\ sanOut = [done |-> FALSE, value |-> << >>]

\* the folders on disk; on GitHub, the repositories of the clones
World(folders) ==
    /\ folderName = ProjectNames
    /\ disk = folders
    /\ remote = {RepoNameOf(p) : p \in {q \in Paths : folders[q].git # "none"}}
    /\ now = 0

(***************************************************************************)
(* A caller of debouncedQueueAdd, at any moment, for any path.             *)
(***************************************************************************)
DebounceCall(p) ==
    /\ debouncedQueueAdd(p)
    /\ UNCHANGED <<config, isRunning, isSyncing, phase, isOnline, projectStates,
                   projects, syncQueue, stats, handles, live, nextDue,
                   startTimers, starts, detectors, scanners, batches, envVars,
                   lastTouch, lastRun, sanVars>>

(***************************************************************************)
(* A caller of sanitizeRepoName.  The names tried: an optional run of "a"  *)
(* one short of the length limit, then up to MaxTail more characters.      *)
(***************************************************************************)
SanChars == {"A", "b", " ", "-", "_", ".", "!"}
Pad(k) == [i \in 1..k |-> "a"]
PadLens == {0, MaxRepoNameLen - 1}
Tails == UNION {[1..n -> SanChars] : n \in 0..MaxTail}
SanitizerInputs == {Pad(k) \o t : k \in PadLens, t \in Tails}

Sanitize ==
    /\ sanOut' = [done |-> TRUE, value |-> sanitizeRepoName(sanIn)]
    /\ UNCHANGED <<progVars, envVars, histVars, sanIn>>

(***************************************************************************)
(* Groups of steps.                                                        *)
(***************************************************************************)
StartSteps == \E s \in StartIds : StartList(s) \/ StartItem(s) \/ StartDelay(s)

ScannerSteps == ScanTick \/ \E c \in ScannerIds : ScanList(c) \/ ScanItem(c)

DetectorSteps ==
    \/ DetectorTick
    \/ \E d \in DetectorIds : DetectorExists(d) \/ DetectorStat(d) \/ DetectorDelay(d)

\* the steps of a run in which GitHub and git answer without a failure
SyncSteps ==
    \E b \in BatchIds :
        \/ BatchPrecheck(b)
        \/ \E st \in {200, 404} : BatchCheckRepo(b, st)
        \/ BatchCheckIsRepo(b)
        \/ BatchRemote(b, "ok")
        \/ BatchCommit(b, TRUE, "main")
        \/ BatchPush(b, "ok")
        \/ BatchDelay(b)
        \/ BatchSettle(b)

CreateSteps ==
    \E b \in BatchIds :
        \/ \E st \in {201, 422} : BatchCreateRepo(b, st)
        \/ BatchCreateDelay(b)
        \/ BatchInit(b, "ok")

\* the steps of a run with every answer GitHub and git can give
WorkflowSteps ==
    \E b \in BatchIds :
        \/ BatchPrecheck(b)
        \/ \E st \in {200, 404} \cup FaultStatuses : BatchCheckRepo(b, st)
        \/ \E st \in {201, 422} \cup FaultStatuses : BatchCreateRepo(b, st)
        \/ BatchCreateDelay(b)
        \/ BatchCheckIsRepo(b)
        \/ \E k \in InitOutcomes : BatchInit(b, k)
        \/ \E r \in RemoteOutcomes : BatchRemote(b, r)
        \/ \E ok \in BOOLEAN, first \in {"commit", "main"} : BatchCommit(b, ok, first)
        \/ \E r \in PushOutcomes : BatchPush(b, r)
        \/ \E ok \in BOOLEAN : BatchPushUpstream(b, ok)
        \/ BatchDelay(b)
        \/ BatchSettle(b)

InitIdle ==
    /\ InitProgram
    /\ InitHistory
    /\ InitSanitizerIdle

\* init() found a configuration and left the timer that starts the monitor
Configured ==
    /\ config = TRUE
    /\ startTimers = 1

(***************************************************************************)
(* Spec: start, stop, restart, the scheduler, manual sync and the batches, *)
(* with one folder in the watch root, at any relative timing.              *)
(***************************************************************************)
Init ==
    /\ InitIdle
    /\ \E f \in {PlainFolder(0), ClonedFolder(0)} :
          World([p \in Paths |-> IF p = "p1" THEN f ELSE NoFolder])
    /\ timed = FALSE
    /\ config \in BOOLEAN
    /\ startTimers = IF config THEN 1 ELSE 0

Next ==
    \/ ToggleStart
    \/ StartTimerFire
    \/ StartSteps
    \/ ProcessTick
    \/ manualSync
    \/ SyncSteps
    \/ CreateSteps
    \/ ToggleStop
    \/ SaveConfig

Spec == Init /\ [][Next]_vars

(***************************************************************************)
(* SpecDetector: the monitor once started, with the Change Detector, the   *)
(* Discovery scan, the debounce timers, the scheduler and the batches,     *)
(* while the folder p1, a clone at first, is modified, deleted and created *)
(* again, with or without its .git.  The repository of p1 exists on GitHub *)
(* throughout, so the workflow never reaches createGitHubRepo here.        *)
(***************************************************************************)
InitDetector ==
    /\ InitIdle
    /\ World([p \in Paths |-> IF p = "p1" THEN ClonedFolder(0) ELSE NoFolder])
    /\ timed = FALSE
    /\ Configured

NextDetector ==
    \/ StartTimerFire
    \/ StartSteps
    \/ ScannerSteps
    \/ DetectorSteps
    \/ \E t \in timeouts : DebounceFire(t)
    \/ ProcessTick
    \/ SyncSteps
    \/ \E b \in BatchIds : BatchInit(b, "ok")
    \/ TouchFolder("p1")
    \/ DeleteFolder("p1")
    \/ \E cloned \in BOOLEAN : CreateFolder("p1", cloned)

SpecDetector == InitDetector /\ [][NextDetector]_vars

(***************************************************************************)
(* SpecWorkflow: the batches and the workflow with every answer of the     *)
(* network, GitHub and git, two folders in the watch root; files of the    *)
(* clone are edited.                                                       *)
(***************************************************************************)
InitWorkflow ==
    /\ InitIdle
    /\ World([p \in Paths |-> IF p = "p1" THEN PlainFolder(0) ELSE ClonedFolder(0)])
    /\ timed = FALSE
    /\ Configured

NextWorkflow ==
    \/ StartTimerFire
    \/ StartSteps
    \/ ProcessTick
    \/ manualSync
    \/ WorkflowSteps
    \/ \E ok \in BOOLEAN : NetworkProbe(ok)
    \/ \E n \in RepoNames : RemoteAppears(n)
    \/ EditFile("p2")

SpecWorkflow == InitWorkflow /\ [][NextWorkflow]_vars

(***************************************************************************)
(* SpecTimed: the Change Detector and the debounce timers on the clock,    *)
(* one clone in the watch root, modified at any moment.                    *)
(***************************************************************************)
InitTimed ==
    /\ InitIdle
    /\ World([p \in Paths |-> IF p = "p1" THEN ClonedFolder(0) ELSE NoFolder])
    /\ timed = TRUE
    /\ Configured

NextTimed ==
    \/ StartTimerFire
    \/ StartSteps
    \/ DetectorSteps
    \/ \E t \in timeouts : DebounceFire(t)
    \/ ProcessTick
    \/ SyncSteps
    \/ \E p \in Paths : TouchFolder(p)
    \/ Tick

SpecTimed == InitTimed /\ [][NextTimed]_vars

(***************************************************************************)
(* SpecDebounce: debouncedQueueAdd called at any moment, on the clock.     *)
(***************************************************************************)
NextDebounce ==
    \/ StartTimerFire
    \/ StartSteps
    \/ DetectorSteps
    \/ \E p \in Paths : DebounceCall(p)
    \/ \E t \in timeouts : DebounceFire(t)
    \/ ProcessTick
    \/ SyncSteps
    \/ Tick

SpecDebounce == InitTimed /\ [][NextDebounce]_vars

(***************************************************************************)
(* SpecSanitize: sanitizeRepoName applied to each of the names.            *)
(***************************************************************************)
InitSanitize ==
    /\ InitProgram
    /\ InitHistory
    /\ World([p \in Paths |-> NoFolder])
    /\ timed = FALSE
    /\ config = FALSE
    /\ startTimers = 0
    /\ sanIn \in SanitizerInputs
    /\ sanOut = [done |-> FALSE, value |-> << >>]

SpecSanitize == InitSanitize /\ [][Sanitize]_vars

(***************************************************************************)
(* SpecDiscovery: the startup scan, the periodic Discovery scan, the       *)
(* scheduler, manual sync and the batches, while entries of the watch root *)
(* are deleted and folders are created.  p1 is absent, a plain folder or a *)
(* clone at first; p2 is a plain file at first.                            *)
(***************************************************************************)
InitDiscovery ==
    /\ InitIdle
    /\ \E f \in {NoFolder, PlainFolder(0), ClonedFolder(0)} :
           World([p \in Paths |-> IF p = "p1" THEN f ELSE FileEntry(0)])
    /\ timed = FALSE
    /\ Configured

NextDiscovery ==
    \/ StartTimerFire
    \/ StartSteps
    \/ ScannerSteps
    \/ ProcessTick
    \/ manualSync
    \/ SyncSteps
    \/ CreateSteps
    \/ DeleteFolder("p2")
    \/ \E p \in Paths, cloned \in BOOLEAN : CreateFolder(p, cloned)

SpecDiscovery == InitDiscovery /\ [][NextDiscovery]_vars

\* Every timer that is set fires and every await of the program resolves; the
\* user and the file system are under no obligation.
FairDiscovery ==
    /\ WF_vars(StartTimerFire)
    /\ WF_vars(StartSteps)
    /\ WF_vars(ScannerSteps)
    /\ WF_vars(ProcessTick)
    /\ WF_vars(SyncSteps \/ CreateSteps)

SpecDiscoveryFair == SpecDiscovery /\ FairDiscovery

(***************************************************************************)
(* SpecDrain: the scheduler and the batches on one folder without .git,    *)
(* with debouncedQueueAdd called at any moment; every timer that is set    *)
(* fires and every await resolves; nobody stops the system.                *)
(***************************************************************************)
InitDrain ==
    /\ InitIdle
    /\ World([p \in Paths |-> IF p = "p1" THEN PlainFolder(0) ELSE NoFolder])
    /\ timed = FALSE
    /\ Configured

NextDrain ==
    \/ StartTimerFire
    \/ StartSteps
    \/ ProcessTick
    \/ SyncSteps
    \/ CreateSteps
    \/ DebounceCall("p1")
    \/ \E t \in timeouts : DebounceFire(t)

FairDrain ==
    /\ WF_vars(StartTimerFire)
    /\ WF_vars(StartSteps)
    /\ WF_vars(ProcessTick)
    /\ WF_vars(SyncSteps \/ CreateSteps)
    /\ WF_vars(\E t \in timeouts : DebounceFire(t))

SpecDrain == InitDrain /\ [][NextDrain]_vars /\ FairDrain

(***************************************************************************)
(* SpecNetwork: the Network Monitor beside the monitor of one clone: the   *)
(* start that init() schedules, the startup scan, the Discovery scan, the  *)
(* Change Detector, the debounce timers, the scheduler, the batches and a  *)
(* stop, while the probe succeeds or fails and the folder is modified.     *)
(***************************************************************************)
NextNetwork ==
    \/ StartTimerFire
    \/ StartSteps
    \/ ScannerSteps
    \/ DetectorSteps
    \/ \E t \in timeouts : DebounceFire(t)
    \/ ProcessTick
    \/ SyncSteps
    \/ ToggleStop
    \/ \E ok \in BOOLEAN : NetworkProbe(ok)
    \/ TouchFolder("p1")

SpecNetwork == InitDetector /\ [][NextNetwork]_vars

(***************************************************************************)
(* SpecRepoNames: two folders of the watch root under any two distinct     *)
(* names, registered by the startup scan and synced by a manual sync and   *)
(* the scheduler, GitHub and git answering without a failure.              *)
(***************************************************************************)
FolderNames == {<<"A", "b">>, <<"b", " ", "a">>, <<"b", "-", "a">>, <<"!">>}

InitRepoNames ==
    /\ InitIdle
    /\ folderName \in {f \in [Paths -> FolderNames] : f["p1"] # f["p2"]}
    /\ disk = [p \in Paths |-> PlainFolder(0)]
    /\ remote = {}
    /\ now = 0
    /\ timed = FALSE
    /\ Configured

NextRepoNames ==
    \/ StartTimerFire
    \/ StartSteps
    \/ ProcessTick
    \/ manualSync
    \/ SyncSteps
    \/ CreateSteps

SpecRepoNames == InitRepoNames /\ [][NextRepoNames]_vars

(***************************************************************************)
(* Properties.                                                             *)
(***************************************************************************)
\* the awaits of syncProjectWithProgress
WorkflowPcs == {"precheck", "checkRepo", "createRepo", "createDelay", "checkIsRepo",
                "init", "remote", "commit", "push", "pushUpstream"}

\* a processQueue is between its guard and the end of its loop
BatchPcs == WorkflowPcs \cup {"delay"}

InWorkflow(b) == batches[b].pc \in WorkflowPcs

BatchInProgress == \E b \in BatchIds : batches[b].pc \in BatchPcs

\* C1: at any time at most one project's sync workflow is in progress, over
\* every interleaving of scheduler ticks, manual syncs, start, stop and restart:
\* no workflow starts before the workflow started before it has returned.
OneWorkflowAtATime == Cardinality({b \in BatchIds : InWorkflow(b)}) <= 1

\* the detection pass d takes a step of its own: it leaves the await it is at
DetectorStep(d) ==
    /\ detectors[d].pc # "idle"
    /\ \/ detectors'[d].pc # detectors[d].pc
       \/ detectors'[d].cur # detectors[d].cur

\* C2: the Change Detector and a sync batch never overlap: no step of a
\* detection pass (existence check, stat, status write, debounce request,
\* registry removal) executes while a batch is in progress.
NoDetectorStepDuringBatch ==
    [][BatchInProgress => \A d \in DetectorIds : ~DetectorStep(d)]_vars

\* the debounce timer of path p fires in this step
Fires(p) == enqueues'[p] = enqueues[p] + 1

\* the folder of p has been modified since the monitor saw it first
Modified(p) == disk[p].mtime > 0

\* C4: with the Change Detector and the Debouncer composed, a project is
\* enqueued DebounceDelay time units after the last modification of its folder:
\* a folder modified again after the detecting tick is not enqueued until its
\* modifications have stopped for the full quiet window.
EnqueueWaitsForQuietWindow ==
    [][\A p \in Paths :
          Fires(p) /\ Modified(p) => now >= lastTouch[p] + DebounceDelay]_vars

\* C10: the output of sanitizeRepoName holds only characters of [a-z0-9-_.],
\* is at most 100 characters long and neither begins nor ends with one of the
\* separators '-', '_', '.'.
SanitizedNameIsWellFormed ==
    sanOut.done =>
        LET out == sanOut.value IN
        /\ \A i \in DOMAIN out : IsAllowed(out[i])
        /\ Len(out) <= MaxRepoNameLen
        /\ out # << >> => ~IsSeparator(out[1]) /\ ~IsSeparator(out[Len(out)])

\* C11: the repository name the workflow computes with sanitizeRepoName of the
\* main process equals the name the renderer computes for the link, for
\* every project name.
SanitizersAgree ==
    sanOut.done => sanOut.value = rendererSanitizeRepoName(sanIn)

\* a name with whitespace inside, longer than the limit, has been sanitized
SanitizersAgreeOnLongName ==
    /\ sanOut.done
    /\ Len(sanIn) > MaxRepoNameLen
    /\ \E i \in DOMAIN sanIn : IsSpace(sanIn[i])
    /\ sanOut.value = rendererSanitizeRepoName(sanIn)
    /\ Len(sanOut.value) = MaxRepoNameLen

\* the loop of batch b: the snapshot is fixed, the workflows start one after
\* the other in snapshot order, whatever the one before returned, and the
\* batch ends only after the last one
BatchLoop(b) ==
    LET cur == batches[b]
        nxt == batches'[b]
    IN
    /\ cur.pc = "idle" /\ nxt.pc # "idle" =>
           /\ nxt.pc = "precheck" /\ nxt.i = 1
           /\ nxt.paths # << >>
           /\ \A j, k \in DOMAIN nxt.paths : j # k => nxt.paths[j] # nxt.paths[k]
    /\ cur.pc \in WorkflowPcs =>
           /\ nxt.pc \in WorkflowPcs \cup {"delay"}
           /\ nxt.paths = cur.paths /\ nxt.i = cur.i
           /\ nxt.pc = "precheck" => cur.pc = "precheck"
    /\ cur.pc = "delay" /\ nxt # cur =>
           IF cur.i < Len(cur.paths)
           THEN nxt.pc = "precheck" /\ nxt.paths = cur.paths /\ nxt.i = cur.i + 1
           ELSE nxt.pc = "settle"

\* C12: failure isolation in a batch: the batch runs the workflow once for each
\* path of its snapshot, in snapshot order, and goes on to the next path
\* whether the workflow returned success or failure; the results counted are
\* those of the workflows that returned.
BatchRunsEveryProject ==
    /\ [][\A b \in BatchIds : BatchLoop(b)]_vars
    /\ [](\A b \in BatchIds : batches[b].pc \in BatchPcs =>
              stats.completedProjects + stats.failedProjects =
                  IF batches[b].pc = "delay" THEN batches[b].i ELSE batches[b].i - 1)

\* the first workflow of a batch of two failed and the second returned success
SecondRunsAfterFailure ==
    \E b \in BatchIds :
        /\ batches[b].pc = "delay"
        /\ Len(batches[b].paths) = 2 /\ batches[b].i = 2
        /\ batches[b].result = "ok"
        /\ stats.failedProjects = 1 /\ stats.completedProjects = 1

\* the batches that begin in this step
Beginning == {b \in BatchIds : batches[b].pc = "idle" /\ batches'[b].pc # "idle"}

\* a step either begins a batch, which takes the whole queue as its snapshot
\* and empties it, or leaves the paths of the queue in place and at most
\* appends paths that were not in it
QueueStep ==
    IF Beginning # {}
    THEN /\ \A b \in Beginning : batches'[b].paths = syncQueue
         /\ syncQueue' = << >>
    ELSE /\ Len(syncQueue') >= Len(syncQueue)
         /\ SubSeq(syncQueue', 1, Len(syncQueue)) = syncQueue
         /\ \A b \in BatchIds :
                batches[b].pc \in BatchPcs /\ batches'[b].pc \in BatchPcs
                    => batches'[b].paths = batches[b].paths

\* C13: the Sync Queue is a set, snapshotted and emptied at the start of each
\* batch: a path enqueued while a batch runs does not enter the snapshot of that
\* batch and stays in the queue until the next batch takes the whole queue;
\* enqueueing a path that is in the queue leaves the queue as it is.
QueueSnapshotAndSet ==
    /\ [][QueueStep]_vars
    /\ [](\A j, k \in DOMAIN syncQueue : j # k => syncQueue[j] # syncQueue[k])
    /\ [][\A t \in timeouts :
            t.path \in Range(syncQueue) /\ timeouts' = timeouts \ {t}
                /\ debounceTimers'[t.path] = NoTimer /\ Beginning = {}
            => syncQueue' = syncQueue]_vars

\* the path a batch is working on has been enqueued again during the batch
EnqueuedDuringBatch ==
    \E b \in BatchIds :
        /\ batches[b].pc \in WorkflowPcs
        /\ CurrentPath(b) \in Range(syncQueue)

\* C14: a manual sync with a configuration and no batch running has the effect
\* of enqueueing every path of the Registry and starting a batch at once: the
\* snapshot is the previous queue followed by the Registry paths that were not
\* in it, the queue is left empty and the busy flag is set in the same step,
\* without a scheduler tick.
ManualSyncIsEnqueueAllThenBatch ==
    [][manualSync /\ config /\ ~isSyncing
          /\ Range(syncQueue) \cup Keys(projects) # {}
       => /\ Beginning # {}
          /\ \A b \in Beginning :
                LET snap == batches'[b].paths IN
                /\ Range(snap) = Range(syncQueue) \cup Keys(projects)
                /\ SubSeq(snap, 1, Len(syncQueue)) = syncQueue
                /\ Len(snap) = Cardinality(Range(syncQueue) \cup Keys(projects))
                /\ batches'[b].pc = "precheck" /\ batches'[b].i = 1
          /\ syncQueue' = << >>
          /\ isSyncing'
          /\ nextDue' = nextDue]_vars

\* a batch has begun before the scheduler has its interval timer, on a snapshot
\* that holds a Registry path nothing had enqueued
ManualBatchStarted ==
    \E b \in BatchIds :
        /\ batches[b].pc = "precheck" /\ batches[b].i = 1
        /\ batches[b].paths = <<"p1", "p2">>
        /\ live["process"] = 0

\* C15: stopping the system, from any reachable state, cancels every pending
\* interval timer and every pending debounce timer and leaves the Sync Queue
\* and the Registry empty.
StopCancelsEverything ==
    [][ToggleStop \/ SaveConfig =>
          /\ \A k \in Kinds : live'[k] = 0
          /\ timeouts' = {}
          /\ syncQueue' = << >>
          /\ projects' = << >> /\ projectStates' = << >>]_vars

\* a scan examines the entry p in this step
StartupScanOn(s, p) ==
    /\ starts[s].pc = "item" /\ starts[s].items[starts[s].idx] = p
    /\ starts'[s].pc = "delay"

PeriodicScanOn(c, p) ==
    /\ scanners[c].pc = "item" /\ scanners[c].items[scanners[c].idx] = p
    /\ scanners'[c] # scanners[c]

ScanOn(p) ==
    \/ \E s \in StartIds : StartupScanOn(s, p)
    \/ \E c \in ScannerIds : PeriodicScanOn(c, p)

\* what the scan does with the entry p: one record by the .git it finds and the
\* stored modification time, the path in the queue if there is no .git; no
\* record for an entry that is not a directory
ScanRegisters(p) ==
    ScanOn(p) =>
        IF isDirectory(p)
        THEN /\ Cardinality({j \in DOMAIN projects' : projects'[j].path = p}) = 1
             /\ Get(projects', p).status = IF hasGitDir(p) THEN "ready" ELSE "needs-repo"
             /\ Get(projects', p).hasGitRepo = hasGitDir(p)
             /\ Has(projectStates', p) /\ Get(projectStates', p).mtime = disk[p].mtime
             /\ ~hasGitDir(p) => p \in Range(syncQueue')
             /\ hasGitDir(p) => syncQueue' = syncQueue
        ELSE projects' = projects /\ projectStates' = projectStates
                /\ syncQueue' = syncQueue

\* the periodic scan passes over the entries status.projects holds, and over
\* no other entry
PeriodicScanSkipsKnown(c) ==
    LET cur == scanners[c]
        nxt == scanners'[c]
        from == IF cur.pc = "idle" THEN 0 ELSE cur.idx
        items == IF cur.pc = "list" THEN nxt.items ELSE cur.items
        to == IF nxt.pc = "item" THEN nxt.idx ELSE Len(items) + 1
    IN
    nxt # cur /\ cur.pc \in {"list", "item"} =>
        /\ nxt.pc = "item" => nxt.items[nxt.idx] \notin Keys(projects')
        /\ \A j \in (from + 1)..(to - 1) : items[j] \in Keys(projects')

\* the startup scan takes the entries one after the other
StartupScanTakesAll(s) ==
    starts[s].pc = "delay" /\ starts'[s] # starts[s] =>
        IF starts[s].idx < Len(starts[s].items)
        THEN starts'[s].pc = "item" /\ starts'[s].idx = starts[s].idx + 1
        ELSE starts'[s].pc = "idle"

\* C16: Discovery: a scan inserts one record for each subdirectory it examines,
\* 'ready' with a version-control directory and 'needs-repo' without, and in
\* the 'needs-repo' case adds the path to the Sync Queue in the same step; an
\* entry that is not a directory gets no record; the periodic scan examines
\* exactly the entries that are not in the Registry and leaves every other
\* record as it is; the startup scan examines every entry.
DiscoveryRegisters ==
    [][/\ \A p \in Paths : ScanRegisters(p)
       /\ \A p, q \in Paths :
             ScanOn(p) /\ q # p /\ Has(projects, q) =>
                 Has(projects', q) /\ Get(projects', q) = Get(projects, q)
       /\ \A c \in ScannerIds : PeriodicScanSkipsKnown(c)
       /\ \A s \in StartIds : StartupScanTakesAll(s)]_vars

\* the periodic scan has registered a new folder without .git next to a
\* project that has been synced, and has passed over a plain file before
NewFolderDiscovered ==
    /\ Has(projects, "p1") /\ Get(projects, "p1").status = "synced"
    /\ Has(projects, "p2") /\ Get(projects, "p2").status = "needs-repo"
    /\ "p2" \in Range(syncQueue)
    /\ live["scan"] > 0
    /\ stats.totalProjects = 2

\* C16 as stated: a path registered as 'needs-repo' (no version-control
\* directory) by a scan is in the Sync Queue when that scan ends.
NeedsRepoQueuedWhenScanEnds ==
    [][/\ \A s \in StartIds :
             starts[s].pc # "idle" /\ starts'[s].pc = "idle" =>
                 \A p \in Range(starts[s].items) :
                     Has(projects', p) /\ ~Get(projects', p).hasGitRepo
                         => p \in Range(syncQueue')
       /\ \A c \in ScannerIds :
             scanners[c].pc # "idle" /\ scanners'[c].pc = "idle" =>
                 \A p \in Paths :
                     Has(projects', p) /\ Get(projects', p).status = "needs-repo"
                         => p \in Range(syncQueue')]_vars

\* C17: once the system has been started with a configuration, Discovery runs
\* at startup and then again and again for as long as the system is running:
\* a folder that is in the watch root while the system is running is in the
\* end registered, whatever the startup scan found.
CreatedFolderEventuallyRegistered ==
    \A p \in Paths :
        (isRunning /\ isDirectory(p)) ~> (Has(projects, p) \/ ~isDirectory(p) \/ ~isRunning)

\* the state of the debounce timer of p between the calls and after the fire
DebounceWindow(p) ==
    bursts[p] > 0 =>
        \/ /\ PendingFor(p) = {Timeout(p, lastCall[p] + DebounceDelay)}
           /\ debounceTimers[p] = lastCall[p] + DebounceDelay
           /\ enqueues[p] = 0
           /\ now <= lastCall[p] + DebounceDelay
        \/ /\ PendingFor(p) = {}
           /\ debounceTimers[p] = NoTimer
           /\ enqueues[p] = 1
           /\ now >= lastCall[p] + DebounceDelay

\* what the fire of the timer of p does, and when
DebounceFires(p) ==
    Fires(p) =>
        /\ now = lastCall[p] + DebounceDelay
        /\ p \in Range(syncQueue')
        /\ Has(projects, p) => Has(projects', p) /\ Get(projects', p).status = "queued"
        /\ debounceTimers'[p] = NoTimer
        /\ {t \in timeouts' : t.path = p} = {}

\* C3: debounce coalescing: calls of debouncedQueueAdd for a path less than
\* DebounceDelay apart produce exactly one enqueue, which fires DebounceDelay
\* after the last call; when it fires the path is in the Sync Queue, its record
\* is marked queued and the path has no pending timer entry.
DebounceCoalesces ==
    /\ [](\A p \in Paths : DebounceWindow(p))
    /\ [][\A p \in Paths : DebounceFires(p)]_vars

\* C3: a burst of two or more calls for p1 has produced its one enqueue
CoalescedBurstEnqueued ==
    /\ bursts["p1"] = 2
    /\ enqueues["p1"] = 1
    /\ now = lastCall["p1"] + DebounceDelay
    /\ "p1" \in Range(syncQueue)
    /\ Has(projects, "p1") /\ Get(projects, "p1").status = "queued"
    /\ debounceTimers["p1"] = NoTimer

\* the Discovery scan, at startup or on its timer, registers p in this step
FoundByScan(p) ==
    \/ \E s \in StartIds :
          /\ starts[s].pc = "item"
          /\ starts[s].items[starts[s].idx] = p
          /\ starts'[s] # starts[s]
    \/ \E c \in ScannerIds :
          /\ scanners[c].pc = "item"
          /\ scanners[c].items[scanners[c].idx] = p
          /\ scanners'[c] # scanners[c]

\* the pass d checks a path whose folder is missing: the path leaves the Registry
RemovesMissing(d) ==
    LET p == detectors[d].cur IN
    detectors[d].pc = "exists" /\ ~pathExists(p) /\ DetectorStep(d) =>
        ~Has(projects', p) /\ ~Has(projectStates', p)

\* a path enters the Registry only when a Discovery scan finds its folder
EntersByScan(p) ==
    ~Has(projects, p) /\ Has(projects', p) => pathExists(p) /\ FoundByScan(p)

\* a pass that ends has checked every path the map of stored times holds
PassChecksAll(d) ==
    detectors[d].pc # "idle" /\ detectors'[d].pc = "idle" =>
        Keys(projectStates') \subseteq detectors[d].visited

\* C5: missing-folder detection: a detection pass checks every registered path,
\* and when it checks a path whose folder is deleted it removes the path from
\* the Registry (the records of status.projects, and the stored modification
\* time); the path does not reappear in the Registry until a Discovery scan
\* finds the folder on disk.
MissingFolderLeavesRegistry ==
    /\ [](Keys(projects) \subseteq Keys(projectStates))
    /\ [][/\ \A d \in DetectorIds : RemovesMissing(d) /\ PassChecksAll(d)
          /\ \A p \in Paths : EntersByScan(p)]_vars

\* C5: the monitor runs, the folder of p1 is deleted and a pass has removed p1
MissingFolderRemoved ==
    /\ live["sync"] > 0
    /\ \A d \in DetectorIds : detectors[d].pc = "idle"
    /\ ~pathExists("p1")
    /\ ~Has(projects, "p1")
    /\ ~Has(projectStates, "p1")

\* a record enters the Registry for a folder without .git
RegistersNeedsRepo(p) ==
    ~Has(projects, p) /\ Has(projects', p) /\ ~hasGitDir(p) =>
        /\ Get(projects', p).status = "needs-repo"
        /\ p \in Range(syncQueue')

\* the calls of a run of Scenario A, in order; initGitRepo makes the commit
ScenarioATrace ==
    <<"checkGitHubRepo", "createGitHubRepo", "created", "checkIsRepo",
      "initGitRepo", "commit", "setRemote", "status", "push">>

\* the same when the tree changed after the commit of initGitRepo
ScenarioATraceEdited ==
    <<"checkGitHubRepo", "createGitHubRepo", "created", "checkIsRepo",
      "initGitRepo", "commit", "setRemote", "status", "commit", "push">>

\* a run on a folder without .git, the remote absent, has returned
ScenarioARun(b) ==
    /\ batches[b].pc = "delay"
    /\ batches[b].fresh
    /\ batches[b].nominal
    /\ "created" \in Range(batches[b].trace)

ScenarioAResult(b) ==
    LET p == CurrentPath(b) IN
    /\ batches[b].trace \in {ScenarioATrace, ScenarioATraceEdited}
    /\ batches[b].result = "ok"
    /\ RepoNameOf(p) \in remote
    /\ hasGitDir(p)
    /\ batches[b].proj = "live" /\ Has(projects, p) => Get(projects, p).status = "synced"

\* C6: Scenario A: a folder without .git is registered with status needs-repo
\* and is in the Sync Queue at once; with the network reachable, the remote
\* absent and every call answered, one workflow pass creates the remote,
\* initializes the local repository, commits and pushes, in that order, and the
\* status of the project is synced.
ScenarioA ==
    /\ [](\A b \in BatchIds : ScenarioARun(b) => ScenarioAResult(b))
    /\ [][\A p \in Paths : RegistersNeedsRepo(p)]_vars

\* C6: the run of Scenario A has returned and the record of p1 is synced
ScenarioADone ==
    \E b \in BatchIds :
        /\ ScenarioARun(b)
        /\ CurrentPath(b) = "p1"
        /\ batches[b].trace = ScenarioATrace
        /\ batches[b].proj = "live"
        /\ Get(projects, "p1").status = "synced"

\* the workflow of batch b leaves its network check, the network unreachable
OfflineAtPrecheck(b) ==
    /\ batches[b].pc = "precheck"
    /\ pathExists(CurrentPath(b))
    /\ ~isOnline
    /\ batches'[b].pc # "precheck"

OfflineAborts(b) ==
    LET p == CurrentPath(b) IN
    OfflineAtPrecheck(b) =>
        /\ batches'[b].pc = "delay"
        /\ batches'[b].result = "failed"
        /\ batches'[b].trace = << >>
        /\ disk' = disk
        /\ remote' = remote
        /\ stats'.failedProjects = stats.failedProjects + 1
        /\ Has(projects, p) => Has(projects', p)
        /\ batches[b].proj = "live" => Get(projects', p).status = "error"

\* after the failure the batch goes on with the next path of its snapshot
OfflineContinues(b) ==
    /\ batches[b].pc = "delay"
    /\ batches[b].report = "offline"
    /\ batches[b].i < Len(batches[b].paths)
    /\ batches'[b].pc # "delay"
    => /\ batches'[b].pc = "precheck"
       /\ batches'[b].paths = batches[b].paths
       /\ batches'[b].i = batches[b].i + 1

\* C7: Scenario C: the network unreachable at the precondition check of X: no
\* remote API call and no git operation for X, the workflow returns failure,
\* the status of X is error, X stays in the Registry and the batch continues
\* with the next project.
ScenarioC ==
    [][\A b \in BatchIds : OfflineAborts(b) /\ OfflineContinues(b)]_vars

\* C7: a workflow has aborted offline, its record is error, a project is left
ScenarioCAborted ==
    \E b \in BatchIds :
        /\ batches[b].pc = "delay"
        /\ batches[b].report = "offline"
        /\ batches[b].trace = << >>
        /\ batches[b].i < Len(batches[b].paths)
        /\ Has(projects, CurrentPath(b))
        /\ Get(projects, CurrentPath(b)).status = "error"

LocalPcs == {"createDelay", "checkIsRepo", "init", "remote", "commit", "push",
             "pushUpstream", "delay"}

\* what a run that returned after a local step logs
LocalReports == {"init", "commit", "push", "synced", "no-changes", "first-push"}

\* C8: Scenario D: the creation call answers 422 (the repository exists): the
\* workflow goes on to the local repository steps, and if the run fails it is
\* a local step that failed: the conflict marks no project as error.
ScenarioD ==
    \A b \in BatchIds :
        batches[b].pc # "idle" /\ "conflict" \in Range(batches[b].trace) =>
            /\ batches[b].pc \in LocalPcs
            /\ batches[b].pc = "delay" => batches[b].report \in LocalReports
            /\ batches[b].pc # "delay" /\ batches[b].proj = "live"
                  => Get(projects, CurrentPath(b)).status = "syncing"

\* C8: a run whose creation call was answered 422 has returned success
ScenarioDDone ==
    \E b \in BatchIds :
        /\ batches[b].pc = "delay"
        /\ "conflict" \in Range(batches[b].trace)
        /\ batches[b].result = "ok"
        /\ batches[b].proj = "live"
        /\ Get(projects, CurrentPath(b)).status = "synced"

\* the run of batch b has returned; the run before it on the same project
\* returned success and the working tree has not changed since that run began
SecondRun(b) ==
    /\ batches[b].pc = "delay"
    /\ batches[b].prior = "ok"
    /\ lastRun[CurrentPath(b)] \in {"ok", "failed"}

\* C9: workflow idempotence: the second of two runs in a row on a project, the
\* first successful and the working tree unchanged between them, creates no
\* commit; with the network and every call answered it reports no changes and
\* returns success.
SecondRunIsNoOp ==
    \A b \in BatchIds :
        SecondRun(b) =>
            /\ "commit" \notin Range(batches[b].trace)
            /\ batches[b].nominal =>
                  batches[b].result = "ok" /\ batches[b].report = "no-changes"

\* C9: a second run in a row has reported no changes
SecondRunDone ==
    \E b \in BatchIds :
        /\ SecondRun(b)
        /\ batches[b].nominal
        /\ batches[b].report = "no-changes"

\* a step of the Scheduler or of the Workflow
SchedulerStep == ProcessTick \/ manualSync \/ WorkflowSteps

\* C18: the Scheduler (processQueue, manualSync) and the Workflow leave the set
\* of paths of the Registry as it is, in status.projects and in the stored
\* modification times; a path enters the Registry only in a step of a Discovery
\* scan on it and leaves it only in a Change Detector step on it or in a stop.
SchedulerKeepsRegistryPaths ==
    [][/\ SchedulerStep =>
             /\ KeySeq(projects') = KeySeq(projects)
             /\ projectStates' = projectStates
       /\ \A p \in Paths :
             /\ ~Has(projects, p) /\ Has(projects', p) => FoundByScan(p)
             /\ Has(projects, p) /\ ~Has(projects', p) =>
                    \/ ToggleStop \/ SaveConfig
                    \/ \E d \in DetectorIds :
                          detectors[d].cur = p /\ DetectorStep(d)]_vars

\* a workflow has returned after a stop emptied the Registry under it, and
\* the path of its project is not in the Registry
ReturnedAfterStop ==
    \E b \in BatchIds :
        /\ batches[b].pc = "delay"
        /\ batches[b].proj = "stale"
        /\ ~Has(projects, CurrentPath(b))

\* the workflow of path p begins
WorkflowBegins(p) ==
    \E b \in BatchIds : batches[b].pc = "precheck" /\ CurrentPath(b) = p

\* C19: when every timer fires and every external call returns, and the system
\* is not stopped, every batch that starts finishes and clears the busy flag,
\* and every path in the Sync Queue is taken by a batch, which runs its
\* workflow.
QueueIsDrained ==
    /\ (isSyncing \/ BatchInProgress) ~> (~isSyncing /\ ~BatchInProgress)
    /\ \A p \in Paths : (p \in Range(syncQueue)) ~> WorkflowBegins(p)

\* a path enqueued by a debounce firing has been taken by a batch and synced;
\* no batch is running and the queue is empty
QueuedPathSynced ==
    /\ enqueues["p1"] > 0
    /\ lastRun["p1"] = "ok"
    /\ Has(projects, "p1") /\ Get(projects, "p1").status = "synced"
    /\ ~isSyncing /\ ~BatchInProgress
    /\ syncQueue = << >>

\* the status of the record of p before and after a step
StatusOf(m, p) == IF Has(m, p) THEN Get(m, p).status ELSE "none"

\* C20: status sequence of a queued project: a record marked 'queued' stays
\* 'queued' until the scheduler picks the path up and marks it 'syncing'; it
\* stays 'syncing' until its workflow returns, and then becomes 'synced' or
\* 'error'; no detector pass and no debounce firing changes it in between.
QueuedSyncingDone ==
    [][\A p \in Paths :
          /\ StatusOf(projects, p) = "queued" =>
                 \/ StatusOf(projects', p) = "queued"
                 \/ StatusOf(projects', p) = "syncing" /\ WorkflowBegins(p)'
          /\ StatusOf(projects, p) = "syncing" =>
                 \/ StatusOf(projects', p) = "syncing"
                 \/ /\ StatusOf(projects', p) \in {"synced", "error"}
                    /\ \E b \in BatchIds :
                          /\ InWorkflow(b) /\ CurrentPath(b) = p
                          /\ batches'[b].pc = "delay"]_vars

\* a detection pass sees in this step that the folder of p is newer than the
\* modification time stored for it
SeesModification(p) ==
    \E d \in DetectorIds :
        /\ detectors[d].pc = "stat" /\ detectors[d].cur = p
        /\ DetectorStep(d)
        /\ pathExists(p) /\ disk[p].mtime > detectors[d].curMtime

\* C21: a record whose status is 'synced' or 'error' leaves that status only
\* through a new folder modification (a detection pass that sees it marks the
\* record 'changed', the debounce firing marks it 'queued') or a manual
\* trigger (the batch marks it 'syncing'); with neither, the status stays
\* 'synced' respectively 'error' across Change Detector passes.
DoneStatusStaysUntilTrigger ==
    [][\A p \in Paths :
          (/\ StatusOf(projects, p) \in {"synced", "error"}
           /\ StatusOf(projects', p) # StatusOf(projects, p)) =>
              \/ StatusOf(projects', p) = "changed" /\ SeesModification(p)
              \/ StatusOf(projects', p) = "queued" /\ Fires(p)
              \/ StatusOf(projects', p) = "syncing" /\ WorkflowBegins(p)'
              \/ StatusOf(projects', p) = "none"]_vars

\* debouncedQueueAdd(p) is called in this step: its timer is the one registered
EnqueueRequested(p) ==
    /\ Timeout(p, now + DebounceDelay) \in timeouts'
    /\ debounceTimers'[p] = now + DebounceDelay

\* the detection pass d examines in this step a registered path that exists
Examines(d) ==
    /\ detectors[d].pc = "stat"
    /\ DetectorStep(d)
    /\ pathExists(detectors[d].cur)
    /\ Has(projects, detectors[d].cur)

\* C22: Change Detector classification: for each registered path that exists
\* on disk, if the repository is absent the record is marked 'needs-repo' and a
\* debounced enqueue is requested; else if the folder modification time is
\* greater than the stored value the record is marked 'changed', the stored
\* time is set to the new time and a debounced enqueue is requested; otherwise
\* the record is marked 'ready', no enqueue is requested and the stored time is
\* unchanged.
DetectorClassifies ==
    [][\A d \in DetectorIds :
          Examines(d) =>
              LET p == detectors[d].cur IN
              IF ~hasGitDir(p)
              THEN /\ StatusOf(projects', p) = "needs-repo"
                   /\ EnqueueRequested(p)
              ELSE IF disk[p].mtime > detectors[d].curMtime
                   THEN /\ StatusOf(projects', p) = "changed"
                        /\ Has(projectStates', p)
                        /\ Get(projectStates', p).mtime = disk[p].mtime
                        /\ EnqueueRequested(p)
                   ELSE /\ StatusOf(projects', p) = "ready"
                        /\ timeouts' = timeouts
                        /\ debounceTimers' = debounceTimers
                        /\ projectStates' = projectStates]_vars

\* a pass has examined p1 after its .git was lost and its folder modified:
\* the record is 'needs-repo', the enqueue is requested
ClassifiedNeedsRepo ==
    \E d \in DetectorIds :
        /\ detectors[d].pc = "delay" /\ detectors[d].cur = "p1"
        /\ pathExists("p1") /\ ~hasGitDir("p1")
        /\ StatusOf(projects, "p1") = "needs-repo"
        /\ debounceTimers["p1"] # NoTimer
        /\ Get(projectStates, "p1").mtime = disk["p1"].mtime

\* the statuses of a project that has no local repository
NoRepoStatuses == {"needs-repo", "queued", "syncing", "error"}

\* C23: a project for which no local repository has been created yet never
\* gets status 'ready', 'changed' or 'synced': every step that registers it or
\* writes its status leaves 'needs-repo' or a status of an attempt ('queued',
\* 'syncing', 'error') until a workflow run has created the local repository;
\* after that a detection pass requests its enqueue only when the folder
\* modification time is greater than the stored one, as for any other project.
NoRepoNeverReady ==
    [][\A p \in Paths :
          /\ (/\ Has(projects', p)
              /\ StatusOf(projects', p) # StatusOf(projects, p)
              /\ pathExists(p)' /\ ~hasGitDir(p)') =>
                 StatusOf(projects', p) \in NoRepoStatuses
          /\ \A d \in DetectorIds :
                (/\ Examines(d) /\ detectors[d].cur = p
                 /\ hasGitDir(p)
                 /\ debounceTimers[p] = NoTimer
                 /\ debounceTimers'[p] # NoTimer) =>
                    disk[p].mtime > detectors[d].curMtime]_vars

\* the workflow of a folder that had no .git has created the local repository
\* and returned success: the record is 'synced'
RepoCreatedBySync ==
    \E b \in BatchIds :
        /\ batches[b].pc = "delay" /\ CurrentPath(b) = "p1"
        /\ batches[b].fresh /\ batches[b].result = "ok"
        /\ hasGitDir("p1")
        /\ StatusOf(projects, "p1") = "synced"

\* the place of each await of syncProjectWithProgress in the order of the
\* steps; "delay" is the return to processQueue
StepRank(pc) ==
    CASE pc = "precheck" -> 1
      [] pc = "checkRepo" -> 2
      [] pc = "createRepo" -> 3
      [] pc = "createDelay" -> 4
      [] pc = "checkIsRepo" -> 5
      [] pc = "init" -> 6
      [] pc = "remote" -> 7
      [] pc = "commit" -> 8
      [] pc = "push" -> 9
      [] pc = "pushUpstream" -> 10
      [] pc = "delay" -> 11

\* the run of batch b goes from its await pc to the await nx in this step
StepAllowed(b, pc, nx) ==
    LET p == CurrentPath(b) IN
    CASE pc = "precheck" -> nx = "checkRepo"
      [] pc = "checkRepo" ->
            \/ nx = "createRepo" /\ BatchCheckRepo(b, 404)
            \/ nx = "checkIsRepo" /\ BatchCheckRepo(b, 200)
      [] pc = "createRepo" -> nx = "createDelay"
      [] pc = "createDelay" -> nx = "checkIsRepo"
      [] pc = "checkIsRepo" ->
            \/ nx = "init" /\ ~hasGitDir(p)
            \/ nx = "remote" /\ hasGitDir(p)
      [] pc = "init" -> nx = "remote"
      [] pc = "remote" -> nx = "commit"
      [] pc = "commit" ->
            /\ nx = "push"
            /\ batches'[b].hasChanges = disk[p].dirty
            /\ ("commit" \in Range(SubSeq(batches'[b].trace,
                                          Len(batches[b].trace) + 1,
                                          Len(batches'[b].trace)))) = disk[p].dirty
      [] pc = "push" -> nx = "pushUpstream"
      [] pc = "pushUpstream" -> FALSE

\* the steps that cannot fail fatally
NeverFatal == {"createDelay", "checkIsRepo", "remote"}

\* C24: workflow step order: in every run the steps are taken in the fixed
\* order precondition check, remote existence check, remote creation (only when
\* the remote was reported absent), local bootstrap (only when the folder is
\* not a repository), remote URL configuration, status and commit (commit only
\* when files changed), push; a step is started only when the step before it
\* finished without a fatal failure, and a fatal failure ends the run with
\* result false.
WorkflowStepOrder ==
    [][\A b \in BatchIds :
          (InWorkflow(b) /\ batches'[b].pc # batches[b].pc) =>
              LET pc == batches[b].pc
                  nx == batches'[b].pc
              IN
              /\ nx \in BatchPcs
              /\ StepRank(nx) > StepRank(pc)
              /\ batches'[b].i = batches[b].i
              /\ IF nx = "delay"
                 THEN /\ pc \notin NeverFatal
                      /\ batches'[b].result \in {"ok", "failed"}
                      /\ batches'[b].result = "ok" => pc \in {"push", "pushUpstream"}
                 ELSE /\ StepAllowed(b, pc, nx)
                      /\ batches'[b].result = "none"]_vars

\* a run has taken every step: the remote was absent and was created, the
\* folder was bootstrapped, the push needed the upstream retry
EveryStepTaken ==
    \E b \in BatchIds :
        /\ batches[b].pc = "delay"
        /\ batches[b].result = "ok"
        /\ batches[b].trace = <<"checkGitHubRepo", "createGitHubRepo", "created",
                                "checkIsRepo", "initGitRepo", "commit", "setRemote",
                                "status", "push", "pushUpstream">>

\* the run of batch b returns in this step with this result
Returns(b, result) ==
    /\ InWorkflow(b)
    /\ batches'[b].pc = "delay"
    /\ batches'[b].result = result

\* the push attempts a run has made
PushAttempts(b) ==
    Len(SelectSeq(batches[b].trace, LAMBDA c : c \in {"push", "pushUpstream"}))

\* C25: push retry: if the push of the default branch fails because no
\* upstream is set, the workflow retries exactly once with the upstream-setting
\* push and succeeds if that push succeeds; a push failure for any other
\* reason, or a failure of the retry, makes the workflow return failure with no
\* further push attempt.
PushRetriedOnce ==
    [][\A b \in BatchIds :
          /\ BatchPush(b, "upstream") =>
                 /\ batches'[b].pc = "pushUpstream"
                 /\ batches'[b].result = "none"
                 /\ PushAttempts(b)' = 2
          /\ BatchPush(b, "failed") =>
                 Returns(b, "failed") /\ PushAttempts(b)' = 1
          /\ BatchPush(b, "ok") =>
                 Returns(b, "ok") /\ PushAttempts(b)' = 1
          /\ BatchPushUpstream(b, TRUE) =>
                 Returns(b, "ok") /\ PushAttempts(b)' = 2
          /\ BatchPushUpstream(b, FALSE) =>
                 Returns(b, "failed") /\ PushAttempts(b)' = 2
          /\ (batches[b].pc \in {"push", "pushUpstream"}
              /\ batches'[b].pc # batches[b].pc) =>
                 \/ batches'[b].pc = "delay"
                 \/ batches[b].pc = "push" /\ BatchPush(b, "upstream")]_vars

\* the push of the clone failed for want of an upstream, the retry succeeded
\* and the run returned success
RetriedPushDone ==
    \E b \in BatchIds :
        /\ batches[b].pc = "delay" /\ CurrentPath(b) = "p2"
        /\ batches[b].result = "ok"
        /\ batches[b].report = "first-push"
        /\ PushAttempts(b) = 2

\* the remote URL configuration of batch b fails in this step
RemoteConfigFails(b) ==
    BatchRemote(b, "add-failed") \/ BatchRemote(b, "all-failed")

\* C26: a failure while removing or adding the 'origin' remote in the remote
\* URL configuration step does not abort the workflow: the run continues with
\* the status/commit step and the push step, and its result is decided by
\* those steps alone.
RemoteFailureIsWarning ==
    [][\A b \in BatchIds :
          /\ RemoteConfigFails(b) =>
                 /\ batches'[b].pc = "commit"
                 /\ batches'[b].result = "none"
                 /\ stats' = stats
                 /\ projects' = projects
          /\ (batches[b].pc \in {"commit", "push", "pushUpstream"}
              /\ batches'[b].pc = "delay") =>
                 /\ batches'[b].result = "ok" <=>
                        BatchPush(b, "ok") \/ BatchPushUpstream(b, TRUE)
                 /\ batches'[b].result = "failed" <=>
                        \/ \E first \in {"commit", "main"} : BatchCommit(b, FALSE, first)
                        \/ BatchPush(b, "failed")
                        \/ BatchPushUpstream(b, FALSE)]_vars

\* a run whose only failure was the remote URL configuration has committed,
\* pushed and returned success
SyncedAfterRemoteWarning ==
    \E b \in BatchIds :
        /\ batches[b].pc = "delay"
        /\ batches[b].result = "ok"
        /\ ~batches[b].nominal
        /\ batches[b].report \in {"synced", "no-changes"}

\* the calls of createGitHubRepo a run has made
CreateCalls(b) ==
    Len(SelectSeq(batches[b].trace, LAMBDA c : c = "createGitHubRepo"))

\* the run of batch b ends in this step with the record it holds marked 'error'
AbortsWithError(b) ==
    /\ Returns(b, "failed")
    /\ batches[b].proj = "live" => StatusOf(projects', CurrentPath(b)) = "error"

\* C27: remote API failures: an authentication failure (401) and a rate-limit
\* failure (403) of the creation of the remote are reported as two distinct
\* error causes, each makes the workflow of the project return failure, and
\* the creation is called at most once in a run, with no retry or backoff; a
\* not-found answer of the existence check is no error and leads to the
\* creation, any other error of the existence check aborts the project with
\* 'error'.
RemoteApiFailures ==
    [][\A b \in BatchIds :
          /\ BatchCreateRepo(b, 401) =>
                 AbortsWithError(b) /\ batches'[b].report = "token"
          /\ BatchCreateRepo(b, 403) =>
                 AbortsWithError(b) /\ batches'[b].report = "rate-limit"
          /\ createGitHubRepo(401).throws /\ createGitHubRepo(403).throws
          /\ createGitHubRepo(401).error # createGitHubRepo(403).error
          /\ CreateCalls(b)' <= 1
          /\ batches[b].pc = "createRepo" =>
                 batches'[b].pc \in {"createRepo", "createDelay", "delay"}
          /\ BatchCheckRepo(b, 404) =>
                 /\ batches'[b].pc = "createRepo"
                 /\ batches'[b].result = "none"
                 /\ CreateCalls(b)' = 1
          /\ \A st \in FaultStatuses :
                 BatchCheckRepo(b, st) =>
                     AbortsWithError(b) /\ CreateCalls(b)' = 0]_vars

\* the creation of the remote of p1 was refused for the rate limit: the run
\* has returned failure after one call and the record is 'error'
RateLimitedCreation ==
    \E b \in BatchIds :
        /\ batches[b].pc = "delay" /\ CurrentPath(b) = "p1"
        /\ batches[b].result = "failed"
        /\ batches[b].report = "rate-limit"
        /\ CreateCalls(b) = 1
        /\ StatusOf(projects, "p1") = "error"

\* the projects the running batch has counted
Counted == stats.completedProjects + stats.failedProjects

\* a batch begins in this step, on this snapshot
BatchBegins(b) == batches[b].pc \notin BatchPcs /\ batches'[b].pc \in BatchPcs

\* the batch b ends in this step
BatchEnds(b) == batches[b].pc \in BatchPcs /\ batches'[b].pc \notin BatchPcs

\* C28: run statistics: at the start of each batch the completed and failed
\* counts are reset to 0 and the total is set to the snapshot size; in every
\* state during the batch completed + failed <= total, and when the batch ends
\* completed + failed = total.
BatchStatistics ==
    [][/\ BatchInProgress' => Counted' <= stats'.totalProjects
       /\ \A b \in BatchIds :
             /\ BatchBegins(b) =>
                    stats' = [totalProjects |-> Len(batches'[b].paths),
                              completedProjects |-> 0, failedProjects |-> 0]
             /\ BatchEnds(b) => Counted = stats.totalProjects]_vars

\* C29: the network reachability flag is written only by the Network
\* Monitor: no start, stop, scan, detector pass, batch or workflow step changes
\* it; a failed or timed-out probe sets it to false, a successful probe sets
\* it to true, and a probe changes nothing else of the program.
OnlyMonitorWritesOnline ==
    [][/\ isOnline' # isOnline => NetworkProbe(isOnline')
       /\ \A ok \in BOOLEAN :
             NetworkProbe(ok) =>
                 /\ isOnline' = ok
                 /\ <<isRunning, isSyncing, phase, projects, syncQueue, batches>>' =
                        <<isRunning, isSyncing, phase, projects, syncQueue, batches>>
       /\ (\/ StartTimerFire \/ StartSteps \/ ScannerSteps \/ DetectorSteps
           \/ ProcessTick \/ SyncSteps \/ ToggleStop
           \/ \E t \in timeouts : DebounceFire(t)) =>
              isOnline' = isOnline]_vars

\* a probe has failed and a workflow that read the flag has returned failure
\* for want of the network; the flag is still false
OfflineSeenByWorkflow ==
    /\ ~isOnline
    /\ \E b \in BatchIds :
          /\ batches[b].pc = "delay"
          /\ batches[b].result = "failed"
          /\ batches[b].report = "offline"

\* the batch b takes a step of its own: it leaves the await it is at
BatchStep(b) ==
    /\ batches[b].pc \in BatchPcs
    /\ \/ batches'[b].pc # batches[b].pc
       \/ batches'[b].i # batches[b].i

\* the batch b is running although the busy flag is clear: a stop has cleared
\* the flag under it
StoppedBatch(b) == batches[b].pc \in BatchPcs /\ ~isSyncing

\* C30: stop during a batch discards the in-flight work: when stop returns the
\* system is in the idle phase with the busy flag clear, and the stopped batch
\* starts no workflow for the remaining paths of its snapshot and changes
\* neither the phase, the busy flag nor any Registry record afterwards.
StopDiscardsBatch ==
    [][/\ (ToggleStop \/ SaveConfig) => phase' = "idle" /\ ~isSyncing'
       /\ \A b \in BatchIds :
             (StoppedBatch(b) /\ BatchStep(b)) =>
                 /\ phase' = phase
                 /\ isSyncing' = isSyncing
                 /\ projects' = projects
                 /\ batches'[b].pc # "precheck"]_vars

\* C31: the busy flag is true exactly while a batch is executing: it is set
\* when a batch takes its snapshot and cleared only when that batch has
\* finished its last project, in every interleaving with stop, start and
\* manual sync, so that a batch start and a detector pass are refused if and
\* only if a batch is really running.
BusyFlagMeansBatch == isSyncing <=> BatchInProgress

\* the paths that have a pending debounce timer
TimerPaths == {t.path : t \in timeouts}

\* C32: every path in the Sync Queue, and every path with a pending debounce
\* timer, is a path of the Registry, in every reachable state: after the Change
\* Detector has removed a project whose folder was deleted, its path is neither
\* left in the queue nor enqueued later by a timer armed before the removal.
QueuedPathsAreRegistered ==
    /\ Range(syncQueue) \subseteq Keys(projects)
    /\ TimerPaths \subseteq Keys(projects)

\* C33: periodic timers: in every reachable state there is at most one active
\* instance of each periodic timer (change detector, discovery, scheduler), and
\* none of them is active while the system is not running, for every
\* interleaving of start, stop and restart, including a stop or a second start
\* issued while the startup scan is still in progress.
OneTimerOfEachKind ==
    \A k \in Kinds :
        /\ live[k] <= 1
        /\ ~isRunning => live[k] = 0

\* the last workflow of p failed, the folder has a local repository, and since
\* the failure the folder was not modified and no run of p began
FailedAndQuiet(p) ==
    /\ lastRun[p] = "failed"
    /\ pathExists(p) /\ hasGitDir(p)

\* the path p is put in the Sync Queue in this step
Enqueued(p) == p \notin Range(syncQueue) /\ p \in Range(syncQueue')

\* a debounce timer is armed for p in this step
TimerArmed(p) == PendingFor(p)' \ PendingFor(p) # {}

\* C34: no automatic retry after failure: if the workflow of a project that
\* has a local repository fails, and afterwards its folder modification time
\* does not increase and no manual sync is triggered, the path is never put in
\* the Sync Queue again and no debounce timer is armed for it.
NoRetryAfterFailure ==
    [][\A p \in Paths :
          (FailedAndQuiet(p) /\ FailedAndQuiet(p)') =>
              ~Enqueued(p) /\ ~TimerArmed(p)]_vars

\* the last workflow of p failed and nothing is outstanding for p: the stored
\* modification time is the one of the folder, no detection pass holds an older
\* one, and no debounce timer of p is pending
FailedAndSettled(p) ==
    /\ FailedAndQuiet(p)
    /\ Has(projectStates, p)
    /\ Get(projectStates, p).mtime = disk[p].mtime
    /\ \A d \in DetectorIds :
          (detectors[d].pc # "idle" /\ detectors[d].cur = p) =>
              detectors[d].curMtime = disk[p].mtime
    /\ PendingFor(p) = {}
    /\ p \notin Range(syncQueue)

\* C34 as the code has it: after a failed workflow of a project with a local
\* repository, once every modification of the folder has been seen by the
\* Change Detector, no debounce timer of the path is pending and the path is
\* not in the Sync Queue, and while the folder is not modified and no run of
\* the path begins, no step puts the path in the Sync Queue or arms a debounce
\* timer for it, and that stays so.
NoRetryWhenSettled ==
    [][\A p \in Paths :
          (FailedAndSettled(p) /\ FailedAndQuiet(p)') =>
              /\ ~Enqueued(p)
              /\ ~TimerArmed(p)
              /\ Has(projectStates', p) => FailedAndSettled(p)']_vars

\* the workflow of the clone has failed, nothing is outstanding, and a
\* detection pass has examined the folder since: the record is 'ready'
FailedThenReady ==
    /\ FailedAndSettled("p1")
    /\ StatusOf(projects, "p1") = "ready"
    /\ \E d \in DetectorIds : detectors[d].pc = "delay" /\ detectors[d].cur = "p1"

\* C35: the sanitized names of any two distinct registered paths differ, and
\* the sanitized name of a registered path is never the empty string, so two
\* registered projects are never synced to the same remote repository.
DistinctRepoNames ==
    \A p \in Keys(projects) :
        /\ RepoNameOf(p) # << >>
        /\ \A q \in Keys(projects) \ {p} : RepoNameOf(p) # RepoNameOf(q)

\* C36: the bootstrap is all-or-nothing across runs: whenever a workflow is at
\* its push step, the local repository of its folder has a commit on the
\* default branch "main", also when an earlier run failed inside initGitRepo
\* after git init.
PushHasCommitOnMain ==
    \A b \in BatchIds :
        (batches[b].pc = "push" /\ pathExists(CurrentPath(b))) =>
            disk[CurrentPath(b)].git = "main"

\* C37: a manual sync requested while a batch is in progress, or while no
\* configuration is loaded, is rejected without effect: the Sync Queue, the
\* Registry, the busy flag, the debounce timers and the run statistics are
\* unchanged and no batch is started.
ManualSyncRejected ==
    [][(manualSync /\ (BatchInProgress \/ ~config)) =>
          UNCHANGED <<syncQueue, projects, isSyncing, debounceTimers, timeouts,
                      stats, batches>>]_vars

\* C38: projectStates and status.projects hold the same set of paths in every
\* reachable state, also after a stop issued while a detector pass or a scan
\* is in progress.
StatesMatchRegistry == Keys(projectStates) = Keys(projects)

=============================================================================
